---- MODULE Spec2Model ----
(***************************************************************************)
(* Model of the terminal panel: the session multiplexer                    *)
(* (ClaudeTerminalViewProvider + TerminalStateManager), the process handle *)
(* layer (PtyManager) and the prompt-wait detector it drives.              *)
(*                                                                         *)
(* One action is one event handled by the single control thread: a         *)
(* message from the webview, a command, a pty data/exit event, a timer, or *)
(* the continuation of a createTerminal call after its awaited             *)
(* working-directory selection.  Handler code is translated as operators   *)
(* from a state record to a state record, composed in the order of the     *)
(* statements; an action commits the record its handler returns.           *)
(***************************************************************************)
EXTENDS Integers, Sequences, FiniteSets, TLC

\* ---------------------------------------------------------------- bounds
\* sessions ever allocated by generateId/generateName
MaxIds == 3
\* pty processes that exist at a time (running, or killed with the exit event
\* still to come, or exited with the handle still registered)
MaxProcs == 3
\* restart() calls
MaxRestarts == 2
\* symbols the detector keeps as the trailing window of a session's output
TailWindow == 2

\* sessions allocated in the specification with restart
FewIds == 2
\* sessions allocated in the specification of the detector
DetIds == 1

\* probe executions started in one run, callers of one execution, clock ticks
MaxProbes == 3
\* the same in the specification of one probe execution and of the debounce timers
OneProbe == 1
FewProbes == 2
MaxWaiters == 2
MaxTime == 3
\* getDebouncedHelp calls
MaxCalls == 3
\* distinct answers of the user to a picker: the one offered only, or another too
OnePick == 1
MaxPicks == 2
\* lines of a help text handed to the parser
MaxLines == 3

NoId == 0
Ids == 1..MaxIds
Pids == 1..MaxProcs

VARIABLES
  terminals,         \* TerminalStateManager.terminals: a Map, in insertion order
  activeTerminalId,  \* TerminalStateManager.activeTerminalId (NoId = undefined)
  terminalCounter,   \* TerminalStateManager.terminalCounter
  nextId,            \* the next id generateId() returns (ids are never reused)
  pending,           \* createTerminal calls suspended at `await selectWorkingDirectory()`
  pickerOpen,        \* promptAndCreateTerminal calls suspended at the command picker
  workspaceFolders,  \* number of workspace folders of the host window
  ptys,              \* PtyManager.ptys: terminal id -> process (0 = no entry)
  procs,             \* the pty processes that exist (st = "none": free slot)
  isRestarting,      \* ClaudeTerminalViewProvider.isRestarting
  restartTimers,     \* pending setTimeout(100) callbacks of restart(), oldest first
  restartCount,      \* restart() calls so far
  view,              \* ClaudeTerminalViewProvider.view is set
  webviewOpen,       \* the webview of `view` is alive (resolved and not yet disposed)
  readyPending,      \* the webview has not yet sent its 'ready' message
  disposed,          \* ClaudeTerminalViewProvider.disposed
  promptPatterns,    \* setting claudeTerminal.promptPatterns (user-supplied patterns)
  detector,          \* PromptDetector: per-session state
  everMatched,       \* history: the sessions whose window matched a pattern after some chunk
  notified,          \* history: the last notification event emitted for each session id
  idCap,             \* the sessions the specification allocates (fixed by its Init)
  config,            \* ConfigManager.getConfig(): the configuration, unchanged during a run
  pickCap,           \* the answers the user gives to the pickers (fixed by the Init)
  out,               \* messages posted to the webview by the last handler
  lastOp,            \* the event the last handler served
  programs,          \* what the probed program does when run with each candidate help flag
  now,               \* Date.now()
  help,              \* HelpExecutor: cache, pendingRequests, debounceTimers, probe executions,
                     \* the getDebouncedHelp calls made, each with its timer and callback,
                     \* and the result whose flags the picker shows
  helpOp,            \* the event the last HelpExecutor step served
  probeCap,          \* the probe executions the specification starts (fixed by its Init)
  helpText,          \* a help text handed to CommandHelpParser.parse
  parsed,            \* the result of parsing helpText (NotParsed before)
  processEnv,        \* process.env of the extension host
  configEnv,         \* the extra variables of the configuration (config.env)
  childEnv           \* the environment built for a child process (NotBuilt before)

vars == <<terminals, activeTerminalId, terminalCounter, nextId, pending, pickerOpen,
          workspaceFolders, ptys, procs, isRestarting, restartTimers,
          restartCount, view, webviewOpen, readyPending, disposed, promptPatterns,
          detector, everMatched, notified, idCap, config, pickCap, out, lastOp,
          programs, now, help, helpOp, probeCap, helpText, parsed,
          processEnv, configEnv, childEnv>>

muxVars == <<terminals, activeTerminalId, terminalCounter, nextId, pending, pickerOpen,
             workspaceFolders, ptys, procs, isRestarting, restartTimers,
             restartCount, view, webviewOpen, readyPending, disposed, promptPatterns,
             detector, everMatched, notified, idCap, config, pickCap, out, lastOp>>
helpVars == <<programs, now, help, helpOp, probeCap>>
parseVars == <<helpText, parsed>>
envVars == <<processEnv, configEnv, childEnv>>

\* ---------------------------------------------------------------- helpers
Msg(t, id, arg) == [type |-> t, id |-> id, arg |-> arg]
\* the event a handler served: its kind, the session it names, a detail x of
\* the state it met (0 where there is none) and the chunk of a data event
OpX(o, id, x) == [op |-> o, id |-> id, x |-> x, data |-> <<>>]
Op(o, id) == OpX(o, id, 0)

SeqToSet(s) == {s[i] : i \in DOMAIN s}
SelectSeqIds(ts) == [i \in DOMAIN ts |-> ts[i].id]
RemoveId(ts, id) == SelectSeq(ts, LAMBDA t : t.id # id)

\* Array.prototype.indexOf, 1-based; 0 when absent (JavaScript's -1)
indexOf(ids, x) ==
  IF \E i \in DOMAIN ids : ids[i] = x
    THEN CHOOSE i \in DOMAIN ids : ids[i] = x /\ \A j \in 1..(i-1) : ids[j] # x
    ELSE 0

\* The program state as one record, so that handler code composes.
Cur ==
  [terminals |-> terminals, activeTerminalId |-> activeTerminalId,
   terminalCounter |-> terminalCounter, nextId |-> nextId, pending |-> pending,
   pickerOpen |-> pickerOpen, workspaceFolders |-> workspaceFolders,
   ptys |-> ptys, procs |-> procs,
   isRestarting |-> isRestarting, restartTimers |-> restartTimers,
   restartCount |-> restartCount, view |-> view, webviewOpen |-> webviewOpen,
   readyPending |-> readyPending, disposed |-> disposed,
   promptPatterns |-> promptPatterns, detector |-> detector, config |-> config,
   out |-> <<>>]

\* the notification event for id among the messages ms, else the one before
LastNotification(ms, id, before) ==
  IF \E i \in DOMAIN ms : ms[i] = Msg("setNotification", id, "on") THEN "on"
  ELSE IF \E i \in DOMAIN ms : ms[i] = Msg("setNotification", id, "off") THEN "off"
  ELSE before

CommitState(s, o) ==
  /\ UNCHANGED <<helpVars, parseVars, envVars>>
  /\ notified' = [id \in Ids |-> LastNotification(s.out, id, notified[id])]
  /\ idCap' = idCap
  /\ config' = config
  /\ pickCap' = pickCap
  /\ terminals' = s.terminals
  /\ activeTerminalId' = s.activeTerminalId
  /\ terminalCounter' = s.terminalCounter
  /\ nextId' = s.nextId
  /\ pending' = s.pending
  /\ pickerOpen' = s.pickerOpen
  /\ workspaceFolders' = s.workspaceFolders
  /\ ptys' = s.ptys
  /\ procs' = s.procs
  /\ isRestarting' = s.isRestarting
  /\ restartTimers' = s.restartTimers
  /\ restartCount' = s.restartCount
  /\ view' = s.view
  /\ webviewOpen' = s.webviewOpen
  /\ readyPending' = s.readyPending
  /\ disposed' = s.disposed
  /\ promptPatterns' = s.promptPatterns
  /\ detector' = s.detector
  /\ out' = s.out
  /\ lastOp' = o

\* the handler's result, with the history left as it is
Commit(s, o) ==
  /\ everMatched' = everMatched
  /\ CommitState(s, o)

\* ------------------------------------------------- TerminalStateManager
has(s, id) == \E i \in DOMAIN s.terminals : s.terminals[i].id = id
getAll(s) == s.terminals
getAllIds(s) == SelectSeqIds(s.terminals)
getActiveId(s) == s.activeTerminalId

\* Map.set: a new key is appended, an existing key keeps its place
set(s, id, instance) ==
  IF has(s, id)
    THEN [s EXCEPT !.terminals =
            [i \in DOMAIN s.terminals |->
               IF s.terminals[i].id = id THEN instance ELSE s.terminals[i]]]
    ELSE [s EXCEPT !.terminals = Append(s.terminals, instance)]

delete(s, id) == [s EXCEPT !.terminals = RemoveId(s.terminals, id)]

\* faulty variant of setActive: the previous session keeps its flag
setActiveKeepingPrevious(s, id) ==
  IF has(s, id)
    THEN [s EXCEPT !.terminals =
                     [i \in DOMAIN s.terminals |->
                        IF s.terminals[i].id = id
                          THEN [s.terminals[i] EXCEPT !.isActive = TRUE]
                          ELSE s.terminals[i]],
                   !.activeTerminalId = id]
    ELSE s

setActive(s, id) ==
  LET deact ==
        IF s.activeTerminalId # NoId /\ s.activeTerminalId # id
          THEN [i \in DOMAIN s.terminals |->
                  IF s.terminals[i].id = s.activeTerminalId
                    THEN [s.terminals[i] EXCEPT !.isActive = FALSE]
                    ELSE s.terminals[i]]
          ELSE s.terminals
  IN IF \E i \in DOMAIN deact : deact[i].id = id
       THEN [s EXCEPT !.terminals =
                        [i \in DOMAIN deact |->
                           IF deact[i].id = id
                             THEN [deact[i] EXCEPT !.isActive = TRUE]
                             ELSE deact[i]],
                      !.activeTerminalId = id]
       ELSE [s EXCEPT !.terminals = deact]

clearActive(s) == [s EXCEPT !.activeTerminalId = NoId]

setWaitingForInput(s, id, isWaiting) ==
  [s EXCEPT !.terminals =
     [i \in DOMAIN s.terminals |->
        IF s.terminals[i].id = id
          THEN [s.terminals[i] EXCEPT !.waiting = isWaiting]
          ELSE s.terminals[i]]]

\* ------------------------------------------------------ message posting
postMessage(s, m) == IF s.view THEN [s EXCEPT !.out = Append(s.out, m)] ELSE s

sendTabsUpdate(s) == postMessage(s, Msg("tabsUpdate", NoId, ""))

\* ------------------------------------------------------- PromptDetector
\* Output is a stream of symbols: "p" ends a built-in prompt pattern, "c" is
\* matched only by the user-supplied pattern, "x" is matched by nothing.
Symbols == {"x", "p", "c"}
Chunks == {<<a>> : a \in Symbols}
BuiltinPatterns == {<<"p">>}
CustomCandidates == {<<"c">>}

\* timer: the state holds the handle of a show-timer; armed: the show-timer
\* callbacks of the session that are scheduled and have not been cleared;
\* lastOutput: the last-output timestamp, kept as the number of the chunks
\* received modulo 2
NoDetectorState ==
  [waiting |-> FALSE, timer |-> FALSE, tail |-> <<>>, armed |-> 0, lastOutput |-> 0]

\* faulty variant of getPromptDetectorConfig: every candidate pattern is
\* passed on, set by the user or not
getPromptDetectorConfigAllCandidates(s) == [customPatterns |-> CustomCandidates]

getPromptDetectorConfig(s) == [customPatterns |-> s.promptPatterns]

\* the last TailWindow symbols of w
Trailing(w) ==
  IF Len(w) <= TailWindow THEN w ELSE SubSeq(w, Len(w) - TailWindow + 1, Len(w))

Occurs(pat, w) ==
  \E i \in 1..(Len(w) - Len(pat) + 1) : SubSeq(w, i, i + Len(pat) - 1) = pat

matchesPrompt(s, w) ==
  \E pat \in BuiltinPatterns \cup getPromptDetectorConfig(s).customPatterns :
    Occurs(pat, w)

\* faulty variant of handleNotificationChange: the end of a wait is recorded
\* but not posted
handleNotificationChangeShowOnly(s, id, isWaiting) ==
  IF isWaiting
    THEN postMessage(setWaitingForInput(s, id, isWaiting), Msg("setNotification", id, "on"))
    ELSE setWaitingForInput(s, id, isWaiting)

handleNotificationChange(s, id, isWaiting) ==
  postMessage(setWaitingForInput(s, id, isWaiting),
              Msg("setNotification", id, IF isWaiting THEN "on" ELSE "off"))

\* clearTimeout on the handle the state holds
clearShowTimer(s, id) ==
  IF s.detector[id].timer
    THEN [s EXCEPT !.detector[id].timer = FALSE, !.detector[id].armed = @ - 1]
    ELSE s

\* setTimeout(showDelay), its handle kept in the state
armShowTimer(s, id) ==
  [s EXCEPT !.detector[id].timer = TRUE, !.detector[id].armed = @ + 1]

\* faulty variant of onData: the pending show-timer is not cancelled
onDataKeepingTimer(s, id, data) ==
  LET w == Trailing(s.detector[id].tail \o data)
      s1 == [s EXCEPT !.detector[id].tail = w, !.detector[id].lastOutput = 1 - @]
  IN IF matchesPrompt(s, w) THEN armShowTimer(s1, id) ELSE s1

\* an output chunk: cancel the show-timer, extend the window, arm on a match
onData(s, id, data) ==
  LET w == Trailing(s.detector[id].tail \o data)
      s1 == [clearShowTimer(s, id) EXCEPT !.detector[id].tail = w,
                                          !.detector[id].lastOutput = 1 - @]
  IN IF matchesPrompt(s, w) THEN armShowTimer(s1, id) ELSE s1

\* the show-timer fires: Idle -> Waiting
onShowTimer(s, id) ==
  LET s1 == [s EXCEPT !.detector[id].timer = FALSE, !.detector[id].armed = @ - 1]
  IN IF s1.detector[id].waiting
       THEN s1
       ELSE handleNotificationChange([s1 EXCEPT !.detector[id].waiting = TRUE], id, TRUE)

\* a keystroke: cancel the show-timer, Waiting -> Idle
onUserInput(s, id) ==
  LET s1 == clearShowTimer(s, id)
  IN IF s1.detector[id].waiting
       THEN handleNotificationChange([s1 EXCEPT !.detector[id].waiting = FALSE], id, FALSE)
       ELSE s1

removeTerminal(s, id) == [s EXCEPT !.detector[id] = NoDetectorState]

disposeDetector(s) == [s EXCEPT !.detector = [i \in Ids |-> NoDetectorState]]

\* ------------------------------------------------------------ PtyManager
\* An environment is a function from the variable names to their values;
\* Absent: the object has no such property, Undefined: the property is there
\* with the value undefined.
EnvKeys == {"TERM", "COLORTERM", "FORCE_COLOR", "CI", "PATH"}
Absent == "(absent)"
Undefined == "(undefined)"
NoEnv == [k \in EnvKeys |-> Absent]

\* `for (const [key, value] of Object.entries(process.env)) if (value !== undefined) env[key] = value`
copyDefined(source) ==
  [k \in EnvKeys |-> IF source[k] \in {Absent, Undefined} THEN Absent ELSE source[k]]

\* Object.assign(target, source): every property of source is set on target
assign(target, source) ==
  [k \in EnvKeys |-> IF source[k] # Absent THEN source[k] ELSE target[k]]

\* `delete env.CI`
deleteProperty(env, key) == [env EXCEPT ![key] = Absent]

\* the terminal settings of PtyManager.buildEnvironment
TerminalSettings ==
  [k \in EnvKeys |->
     CASE k = "TERM" -> "xterm-256color"
       [] k = "COLORTERM" -> "truecolor"
       [] k = "FORCE_COLOR" -> "1"
       [] OTHER -> Absent]

\* faulty variant of buildEnvironment: the CI variable is left as it is
buildEnvironmentKeepingCI(inherited, extra) ==
  assign(assign(copyDefined(inherited), extra), TerminalSettings)

\* PtyManager.buildEnvironment
buildEnvironment(inherited, extra) ==
  deleteProperty(assign(assign(copyDefined(inherited), extra), TerminalSettings), "CI")

\* the environment _startTerminal of the single-terminal provider builds: the
\* settings object carries `CI: undefined` as well
startTerminalEnvironment(inherited, extra) ==
  deleteProperty(assign(assign(copyDefined(inherited), extra),
                        [TerminalSettings EXCEPT !["CI"] = Undefined]), "CI")

handlePtyError(s, id) == postMessage(s, Msg("output", id, "error"))

\* the shell getDefaultShell returns
DefaultShell == "/bin/bash"
\* cwd is undefined
NoCwd == 0
\* getWorkingDirectory: the first workspace folder
getWorkingDirectory(s) == 1

\* what a pty process runs: the file and the arguments given to nodePty.spawn,
\* the working directory, and the input written to it by handleAutoRun
NoChild == [file |-> "", args |-> <<>>, cwd |-> NoCwd, input |-> <<>>]

\* faulty variant of createPty: the program is spawned whenever the mode is direct
createPtyDirectWheneverFlagged(cfg, shell, cwd) ==
  IF cfg.directMode
    THEN [file |-> cfg.command, args |-> cfg.args, cwd |-> cwd, input |-> <<>>]
    ELSE [file |-> shell, args |-> <<>>, cwd |-> cwd, input |-> <<>>]

\* PtyManager.createPty
createPty(cfg, shell, cwd) ==
  IF cfg.directMode /\ cfg.command # ""
    THEN [file |-> cfg.command, args |-> cfg.args, cwd |-> cwd, input |-> <<>>]
    ELSE [file |-> shell, args |-> <<>>, cwd |-> cwd, input |-> <<>>]

\* 'clear && ' + [config.command, ...config.args].join(' ') + '\r', word by word
fullCommandLine(cfg) == <<"clear", "&&", cfg.command>> \o cfg.args \o <<"\\r">>

\* PtyManager.handleAutoRun
handleAutoRun(pty, cfg) ==
  IF ~cfg.directMode /\ cfg.autoRun /\ cfg.command # ""
    THEN [pty EXCEPT !.input = fullCommandLine(cfg)]
    ELSE pty

\* `config.shell || this.getDefaultShell()`
shellOf(cfg) == IF cfg.shell # "" THEN cfg.shell ELSE DefaultShell

NoProc == [tid |-> NoId, st |-> "none", killedBy |-> 0, child |-> NoChild]
\* the slot the next process is given
freePid(s) == CHOOSE q \in Pids : s.procs[q].st = "none" /\ \A r \in 1..(q-1) : s.procs[r].st # "none"

\* faulty variant of kill: the handle stays in the table
killKeepingHandle(s, id) ==
  LET pid == s.ptys[id]
  IN IF pid # 0 /\ s.procs[pid].st = "running"
       THEN [s EXCEPT !.procs[pid].st = "killed"]
       ELSE s

\* pty.kill() makes a running process exit; its exit event is delivered later.
\* A process that has exited already is gone once its handle is dropped.
kill(s, id) ==
  LET pid == s.ptys[id]
  IN IF pid # 0
       THEN [s EXCEPT !.procs[pid] =
                        IF s.procs[pid].st = "running" THEN [@ EXCEPT !.st = "killed"]
                        ELSE NoProc,
                      !.ptys[id] = 0]
       ELSE s

\* faulty variant of spawn: a failure is not reported
spawnFailureSilent(s, id, cfg, cwd, ok) ==
  LET s1 == kill(s, id)
      workingDir == IF cwd # NoCwd THEN cwd ELSE getWorkingDirectory(s)
      pty == handleAutoRun(createPty(cfg, shellOf(cfg), workingDir), cfg)
  IN IF ok
       THEN [s1 EXCEPT !.ptys[id] = freePid(s1),
                       !.procs[freePid(s1)] =
                          [tid |-> id, st |-> "running", killedBy |-> 0, child |-> pty]]
       ELSE s1

\* ok: nodePty.spawn returned a process (it throws otherwise)
\* cwd: the working directory the caller passes (NoCwd: none)
spawn(s, id, cfg, cwd, ok) ==
  LET s1 == kill(s, id)
      workingDir == IF cwd # NoCwd THEN cwd ELSE getWorkingDirectory(s)
      pty == handleAutoRun(createPty(cfg, shellOf(cfg), workingDir), cfg)
  IN IF ok
       THEN [s1 EXCEPT !.ptys[id] = freePid(s1),
                       !.procs[freePid(s1)] =
                          [tid |-> id, st |-> "running", killedBy |-> 0, child |-> pty]]
       ELSE handlePtyError(s1, id)

RECURSIVE killEach(_, _)
killEach(s, ids) ==
  IF ids = {} THEN s
  ELSE LET id == CHOOSE i \in ids : TRUE IN killEach(kill(s, id), ids \ {id})

killAll(s) == killEach(s, {id \in Ids : s.ptys[id] # 0})

\* `this.ptys.get(terminalId)?.`: the call reaches a handle
forwards(s, id) == s.ptys[id] # 0
\* the handle of the session belongs to a process that has not exited
LiveProcess(s, id) == forwards(s, id) /\ s.procs[s.ptys[id]].st = "running"

write(s, id) == s

resize(s, id) == s

\* ------------------------------------------- ClaudeTerminalViewProvider
\* faulty variant of handlePtyData: the chunk is not handed to the detector
handlePtyDataDisplayOnly(s, id, data) ==
  IF ~s.disposed /\ s.view
    THEN postMessage(s, Msg("output", id, data[1]))
    ELSE s

\* faulty variant of handlePtyData: the chunk is handled whether a view is
\* attached or not
handlePtyDataUnlessDisposed(s, id, data) ==
  IF ~s.disposed
    THEN onData(postMessage(s, Msg("output", id, data[1])), id, data)
    ELSE s

handlePtyData(s, id, data) ==
  IF ~s.disposed /\ s.view
    THEN onData(postMessage(s, Msg("output", id, data[1])), id, data)
    ELSE s

handlePtyExit(s, id) ==
  IF ~s.disposed /\ s.view /\ ~s.isRestarting
    THEN postMessage(s, Msg("output", id, "exit"))
    ELSE s

\* faulty variant of handleInput: the detector is not told of the keystroke
handleInputWriteOnly(s, id) == write(s, id)

handleInput(s, id) == onUserInput(write(s, id), id)

handleResize(s, id) == resize(s, id)

\* no command from the picker
NoPick == [command |-> "", args |-> <<>>]
\* `{ ...config, command, args }` of createTerminalWithCommand
spawnConfig(s, p) ==
  IF p.custom THEN [s.config EXCEPT !.command = p.pick.command, !.args = p.pick.args]
  ELSE s.config

\* createTerminal up to its await: the id and the name are allocated.
\* replaces: the session whose close started this call (NoId otherwise);
\* the selection is a microtask unless the host has to ask the user.
\* pick: the command and arguments of createTerminalWithCommand (NoPick: createTerminal)
createTerminalBegin(s, replaces, pick) ==
  [s EXCEPT !.nextId = s.nextId + 1,
            !.terminalCounter = s.terminalCounter + 1,
            !.pending = s.pending \cup
               {[id |-> s.nextId, name |-> s.terminalCounter + 1,
                 replaces |-> replaces, custom |-> pick # NoPick, pick |-> pick,
                 suspended |-> s.workspaceFolders > 1]}]

\* faulty variant of createTerminalResume: the new session is not activated
createTerminalResumeInactive(s, p, cwd, ok) ==
  LET s0 == [s EXCEPT !.pending = s.pending \ {p}]
      s1 == set(s0, p.id, [id |-> p.id, name |-> p.name, isActive |-> FALSE,
                           waiting |-> FALSE])
      s3 == sendTabsUpdate(postMessage(s1, Msg("createTab", p.id, "")))
      s4 == spawn(s3, p.id, spawnConfig(s, p), cwd, ok)
  IN postMessage(s4, Msg("switchTab", p.id, ""))

\* createTerminal / createTerminalWithCommand after the await
createTerminalResume(s, p, cwd, ok) ==
  LET s0 == [s EXCEPT !.pending = s.pending \ {p}]
      s1 == set(s0, p.id, [id |-> p.id, name |-> p.name, isActive |-> FALSE,
                           waiting |-> FALSE])
      s2 == setActive(s1, p.id)
      s3 == sendTabsUpdate(postMessage(s2, Msg("createTab", p.id, "")))
      s4 == spawn(s3, p.id, spawnConfig(s, p), cwd, ok)
  IN postMessage(s4, Msg("switchTab", p.id, ""))

\* faulty variant of switchToTerminal: the target is not looked up first
switchToTerminalUnchecked(s, id) ==
  sendTabsUpdate(postMessage(setActive(s, id), Msg("switchTab", id, "")))

switchToTerminal(s, id) ==
  IF ~has(s, id) THEN s
  ELSE sendTabsUpdate(postMessage(setActive(s, id), Msg("switchTab", id, "")))

\* faulty variant of handleActiveTerminalClosed: no session is created when
\* none remains
handleActiveTerminalClosedNoCreate(s, closed) ==
  LET remaining == getAll(s)
  IN IF Len(remaining) > 0
       THEN sendTabsUpdate(switchToTerminal(s, remaining[Len(remaining)].id))
       ELSE clearActive(s)

\* faulty variant of handleActiveTerminalClosed: the first remaining session
\* is taken instead of the last
handleActiveTerminalClosedFirst(s, closed) ==
  LET remaining == getAll(s)
  IN IF Len(remaining) > 0
       THEN sendTabsUpdate(switchToTerminal(s, remaining[1].id))
       ELSE createTerminalBegin(clearActive(s), closed, NoPick)

handleActiveTerminalClosed(s, closed) ==
  LET remaining == getAll(s)
  IN IF Len(remaining) > 0
       THEN sendTabsUpdate(switchToTerminal(s, remaining[Len(remaining)].id))
       ELSE createTerminalBegin(clearActive(s), closed, NoPick)

\* faulty variant of closeTerminal: the session is not looked up first
closeTerminalUnchecked(s, id) ==
  LET s1 == postMessage(delete(removeTerminal(kill(s, id), id), id),
                        Msg("removeTab", id, ""))
  IN IF getActiveId(s1) = id
       THEN handleActiveTerminalClosed(s1, id)
       ELSE sendTabsUpdate(s1)

closeTerminal(s, id) ==
  IF ~has(s, id) THEN s
  ELSE LET s1 == postMessage(delete(removeTerminal(kill(s, id), id), id),
                             Msg("removeTab", id, ""))
       IN IF getActiveId(s1) = id
            THEN handleActiveTerminalClosed(s1, id)
            ELSE sendTabsUpdate(s1)

closeActiveTerminal(s) ==
  IF getActiveId(s) # NoId THEN closeTerminal(s, getActiveId(s)) ELSE s

\* faulty variant of switchToNextTerminal: the index is not wrapped around
switchToNextTerminalNoWrap(s) ==
  LET ids == getAllIds(s)
      next == indexOf(ids, getActiveId(s)) + 1
  IN IF Len(ids) <= 1 THEN s
     ELSE switchToTerminal(s, ids[IF next > Len(ids) THEN Len(ids) ELSE next])

switchToNextTerminal(s) ==
  LET ids == getAllIds(s)
  IN IF Len(ids) <= 1 THEN s
     ELSE switchToTerminal(s, ids[(indexOf(ids, getActiveId(s)) % Len(ids)) + 1])

switchToPreviousTerminal(s) ==
  LET ids == getAllIds(s)
  IN IF Len(ids) <= 1 THEN s
     ELSE switchToTerminal(s,
            ids[((indexOf(ids, getActiveId(s)) - 2 + Len(ids)) % Len(ids)) + 1])

clear(s) ==
  IF getActiveId(s) # NoId THEN postMessage(s, Msg("clear", getActiveId(s), "")) ELSE s

\* restart(); the process it kills is tagged with the number of this call
restart(s, ok) ==
  LET activeId == getActiveId(s)
      n == s.restartCount + 1
      old == s.ptys[activeId]
      s1 == kill(clear([s EXCEPT !.isRestarting = TRUE, !.restartCount = n]), activeId)
      s2 == IF old # 0 /\ s.procs[old].st = "running"
              THEN [s1 EXCEPT !.procs[old].killedBy = n] ELSE s1
      s3 == [s2 EXCEPT !.restartTimers = Append(s2.restartTimers, n)]
  IN IF activeId = NoId THEN s ELSE spawn(s3, activeId, s.config, NoCwd, ok)

restartTimerFired(s) ==
  [s EXCEPT !.isRestarting = FALSE, !.restartTimers = Tail(s.restartTimers)]

dispose(s) == disposeDetector(killAll([s EXCEPT !.disposed = TRUE]))


\* ------------------------------------------------------ CommandHelpParser
\* A help text is a sequence of lines (output.split('\n')).  A line is given
\* by its parts: `lead` spaces, a short flag, a long flag (written "-s, --long"
\* when both are there), a value hint after one space, `gap` spaces, and the
\* remaining words separated by single spaces.  A part that is absent is "".
\* The regular expressions of the parsers are evaluated on these parts.
HelpLine(lead, short, long, hint, gap, rest) ==
  [lead |-> lead, short |-> short, long |-> long, hint |-> hint, gap |-> gap, rest |-> rest]

\* a hint of the form <...> or [...]
Bracketed(hint) == hint \in {"<path>", "[path]"}
\* a hint of the form [A-Z_]+
UpperCase(hint) == hint \in {"FILE"}

\* the words of the line (String.trim, split at the spaces)
Words(l) ==
  (IF l.short # "" THEN <<l.short>> ELSE <<>>) \o (IF l.long # "" THEN <<l.long>> ELSE <<>>)
  \o (IF l.hint # "" THEN <<l.hint>> ELSE <<>>) \o l.rest

RECURSIVE WordsLen(_)
WordsLen(ws) ==
  IF ws = <<>> THEN 0
  ELSE Len(Head(ws)) + (IF Len(ws) > 1 THEN 1 ELSE 0) + WordsLen(Tail(ws))

\* String.length of the line
LineLen(l) ==
  l.lead + Len(l.short) + (IF l.short # "" /\ l.long # "" THEN 2 ELSE 0) + Len(l.long)
  + (IF l.hint # "" THEN 1 + Len(l.hint) ELSE 0) + l.gap + WordsLen(l.rest)

RECURSIVE TextLen(_)
TextLen(text) ==
  IF text = <<>> THEN 0
  ELSE LineLen(Head(text)) + (IF Len(text) > 1 THEN 1 ELSE 0) + TextLen(Tail(text))

\* String.includes on one line, for the markers the parsers look for
LineIncludes(l, needle) ==
  CASE needle = "--help" -> l.long = "--help" \/ \E i \in DOMAIN l.rest : l.rest[i] = "--help"
    [] needle \in {"optional arguments:", "positional arguments:"} ->
         \E i \in 1..(Len(l.rest) - 1) :
           /\ l.rest[i] = (IF needle = "optional arguments:" THEN "optional" ELSE "positional")
           /\ l.rest[i + 1] = "arguments:"
    [] OTHER -> \E i \in DOMAIN l.rest : l.rest[i] = needle

includes(text, needle) == \E i \in DOMAIN text : LineIncludes(text[i], needle)

\* the result of String.match: the capture groups (an absent group is "");
\* firstIsLong: first.startsWith('--')
NoMatch ==
  [ok |-> FALSE, first |-> "", firstIsLong |-> FALSE, second |-> "", valueHint |-> "",
   description |-> <<>>]
Match(first, firstIsLong, second, valueHint, description) ==
  [ok |-> TRUE, first |-> first, firstIsLong |-> firstIsLong, second |-> second,
   valueHint |-> valueHint, description |-> description]

\* currentFlag = null
NoFlag ==
  [flag |-> "", shortFlag |-> "", description |-> <<>>, takesValue |-> FALSE, valueHint |-> ""]
\* parseErrors: undefined
NoErrors == <<>>

ParsedHelp(command, flags, parseErrors) ==
  [command |-> command, flags |-> flags, parseErrors |-> parseErrors]

\* GnuStyleParser.patterns, tried in order: "-s, --long", "--long", "-s"; the
\* value hint must be bracketed, the description follows two or more spaces
gnuMatch(l) ==
  LET tailOk == (l.hint = "" \/ Bracketed(l.hint)) /\ l.gap >= 2 /\ l.rest # <<>>
  IN CASE l.short # "" /\ l.long # "" /\ tailOk -> Match(l.short, FALSE, l.long, l.hint, l.rest)
       [] l.short = "" /\ l.long # "" /\ tailOk -> Match(l.long, TRUE, "", l.hint, l.rest)
       [] l.short # "" /\ l.long = "" /\ tailOk -> Match(l.short, FALSE, "", l.hint, l.rest)
       [] OTHER -> NoMatch

gnuCanParse(text) ==
  \/ includes(text, "--help")
  \/ includes(text, "Usage:")
  \/ includes(text, "OPTIONS")
  \/ includes(text, "Options:")
  \/ \E i \in DOMAIN text : text[i].lead >= 1 /\ text[i].short # "" /\ text[i].long # ""

\* the flag GnuStyleParser.parse builds from a match
gnuFlag(m) ==
  LET short == IF m.first # "" /\ ~m.firstIsLong THEN m.first ELSE m.second
      long == IF m.firstIsLong THEN m.first ELSE m.second
  IN [flag |-> IF long # "" THEN long ELSE short,
      shortFlag |-> IF short # "" /\ long # "" THEN short ELSE "",
      description |-> m.description,
      takesValue |-> m.valueHint # "",
      valueHint |-> m.valueHint]

\* the loop of GnuStyleParser.parse over the lines still to read
RECURSIVE gnuLoop(_, _, _)
gnuLoop(lines, flags, currentFlag) ==
  IF lines = <<>>
    THEN IF currentFlag # NoFlag THEN Append(flags, currentFlag) ELSE flags
    ELSE LET l == Head(lines)
             m == gnuMatch(l)
         IN IF m.ok
              THEN gnuLoop(Tail(lines),
                           IF currentFlag # NoFlag THEN Append(flags, currentFlag) ELSE flags,
                           gnuFlag(m))
              ELSE IF currentFlag # NoFlag /\ l.lead >= 10 /\ LineLen(l) > l.lead
                THEN gnuLoop(Tail(lines), flags,
                             [currentFlag EXCEPT !.description = @ \o Words(l)])
                ELSE gnuLoop(Tail(lines), flags, currentFlag)

gnuParse(command, text) == ParsedHelp(command, gnuLoop(text, <<>>, NoFlag), NoErrors)

\* ArgparseStyleParser.pattern: every part but the two or more spaces and the
\* description is optional, so a line that is no flag line matches as well,
\* with no flag captured, when it starts with two or more spaces
argparseMatch(l) ==
  CASE (l.short # "" \/ l.long # "") /\ l.gap >= 2 /\ l.rest # <<>>
         /\ (l.hint = "" \/ Bracketed(l.hint) \/ UpperCase(l.hint)) ->
         Match(l.short, FALSE, l.long, l.hint, l.rest)
    [] l.lead >= 2 /\ LineLen(l) > l.lead -> Match("", FALSE, "", "", Words(l))
    [] OTHER -> NoMatch

argparseCanParse(text) ==
  \/ includes(text, "optional arguments:")
  \/ includes(text, "positional arguments:")
  \/ includes(text, "options:")

argparseFlag(m) ==
  [flag |-> IF m.second # "" THEN m.second ELSE m.first,
   shortFlag |-> IF m.first # "" /\ m.second # "" THEN m.first ELSE "",
   description |-> m.description,
   takesValue |-> m.valueHint # "",
   valueHint |-> m.valueHint]

RECURSIVE argparseLoop(_, _, _)
argparseLoop(lines, flags, currentFlag) ==
  IF lines = <<>>
    THEN IF currentFlag # NoFlag THEN Append(flags, currentFlag) ELSE flags
    ELSE LET l == Head(lines)
             m == argparseMatch(l)
         IN IF m.ok
              THEN argparseLoop(Tail(lines),
                                IF currentFlag # NoFlag THEN Append(flags, currentFlag) ELSE flags,
                                IF m.second # "" \/ m.first # ""
                                  THEN argparseFlag(m) ELSE currentFlag)
              ELSE IF currentFlag # NoFlag /\ l.lead >= 20 /\ LineLen(l) > l.lead
                THEN argparseLoop(Tail(lines), flags,
                                  [currentFlag EXCEPT !.description = @ \o Words(l)])
                ELSE argparseLoop(Tail(lines), flags, currentFlag)

argparseParse(command, text) ==
  ParsedHelp(command, argparseLoop(text, <<>>, NoFlag), NoErrors)

\* FallbackParser.linePattern: one flag at the start of the line ("-s, --long"
\* does not match), an optional word after it, then the description
fallbackMatch(l) ==
  LET flag == IF l.long # "" THEN l.long ELSE l.short
      one == (l.short = "") # (l.long = "")
  IN CASE one /\ l.hint # "" /\ l.gap >= 1 /\ l.rest # <<>> ->
            Match(flag, l.long # "", "", l.hint, l.rest)
       [] one /\ l.hint # "" /\ l.rest = <<>> ->
            Match(flag, l.long # "", "", "", <<l.hint>>)
       [] one /\ l.hint = "" /\ l.gap >= 1 /\ Len(l.rest) >= 2 ->
            Match(flag, l.long # "", "", "", Tail(l.rest))
       [] one /\ l.hint = "" /\ l.gap >= 1 /\ Len(l.rest) = 1 ->
            Match(flag, l.long # "", "", "", l.rest)
       [] OTHER -> NoMatch

fallbackCanParse(text) == TRUE

\* the flags of FallbackParser.parse; seen: the flags taken so far
RECURSIVE fallbackLoop(_, _, _)
fallbackLoop(lines, flags, seen) ==
  IF lines = <<>> THEN flags
  ELSE LET m == fallbackMatch(Head(lines))
       IN IF m.ok /\ m.first \notin seen
            THEN fallbackLoop(Tail(lines),
                              Append(flags, [flag |-> m.first, shortFlag |-> "",
                                             description |-> m.description,
                                             takesValue |-> Bracketed(Head(lines).hint),
                                             valueHint |-> ""]),
                              seen \cup {m.first})
            ELSE fallbackLoop(Tail(lines), flags, seen)

fallbackParse(command, text) ==
  LET flags == fallbackLoop(text, <<>>, {})
  IN ParsedHelp(command, flags,
                IF flags = <<>> THEN <<"Could not parse help output">> ELSE NoErrors)

\* the parsers with the fallback in front
ParsersFallbackFirst == <<"fallback", "gnu", "argparse">>
\* CommandHelpParser.parsers, in order
Parsers == <<"gnu", "argparse", "fallback">>

canParse(parser, text) ==
  CASE parser = "gnu" -> gnuCanParse(text)
    [] parser = "argparse" -> argparseCanParse(text)
    [] parser = "fallback" -> fallbackCanParse(text)

parseWith(parser, command, text) ==
  CASE parser = "gnu" -> gnuParse(command, text)
    [] parser = "argparse" -> argparseParse(command, text)
    [] parser = "fallback" -> fallbackParse(command, text)

\* the loop of CommandHelpParser.parse from parser number i on
RECURSIVE parseFrom(_, _, _)
parseFrom(i, command, text) ==
  IF i > Len(Parsers)
    THEN ParsedHelp(command, <<>>, <<"No flags found in help output">>)
    ELSE IF canParse(Parsers[i], text) /\ parseWith(Parsers[i], command, text).flags # <<>>
      THEN parseWith(Parsers[i], command, text)
      ELSE parseFrom(i + 1, command, text)

parse(command, text) == parseFrom(1, command, text)

\* ----------------------------------------------------------- HelpExecutor
\* the lines the modelled programs print
UsageLine == HelpLine(0, "", "", "", 0, <<"Usage:", "prog", "[options]">>)
VerboseLine == HelpLine(2, "-v", "--verbose", "", 3, <<"Enable", "verbose", "output">>)
ProseLine == HelpLine(4, "", "", "", 0, <<"more", "text">>)
DeepLine == HelpLine(22, "", "", "", 0, <<"continued", "here">>)

\* a help text with a flag, an error message too short to be one, and a
\* long text without any flag line
GnuHelpText == <<UsageLine, VerboseLine>>
ShortText == <<VerboseLine>>
ProseText == <<UsageLine, ProseLine, DeepLine>>

\* What a probed program does with one candidate flag: print nothing, print
\* a short text on stdout and a long one on stderr, print help on stdout,
\* print a long text on stderr only, never exit, or fail to start.
Behaviours == {"none", "short", "help", "prose", "hang", "error"}

\* stdout and stderr of a process at its close event
stdoutOf(b) ==
  CASE b = "short" -> ShortText
    [] b = "help" -> GnuHelpText
    [] OTHER -> <<>>
stderrOf(b) ==
  CASE b = "short" -> GnuHelpText
    [] b = "prose" -> ProseText
    [] OTHER -> <<>>

\* the program names asked about
HelpKeys == {"", "a", "b"}

helpFlags == <<"--help", "-h", "help">>
\* `output.length > 50`
MinHelpLength == 50
\* options.cacheMaxAge and options.cacheMaxSize, in clock ticks and entries
cacheMaxAge == 2
cacheMaxSize == 2

NoExec == 0
\* debounceTimers.get(command) is undefined
NoTimer == 0
NoAttempt == [st |-> "none", timer |-> FALSE]
NotResolved == ParsedHelp("", <<>>, <<"pending">>)
\* an exhaustion result that says nothing
ExhaustedSilent(command) == ParsedHelp(command, <<>>, NoErrors)
\* the result of tryNextFlag when no candidate is left
Exhausted(command) == ParsedHelp(command, <<>>, <<"Command does not support --help">>)

HelpCur == [help EXCEPT !.out = <<>>]

cacheGet(h, command) == SelectSeq(h.cache, LAMBDA c : c.key = command)
cacheHas(h, command) == cacheGet(h, command) # <<>>
\* `cached && Date.now() - cached.timestamp < this.options.cacheMaxAge`
isFresh(h, command, t) ==
  cacheHas(h, command) /\ t - cacheGet(h, command)[1].timestamp < cacheMaxAge

\* Map.set: an existing key keeps its place, a new key goes last
cacheSet(cache, command, result, t) ==
  LET entry == [key |-> command, result |-> result, timestamp |-> t]
  IN IF \E i \in DOMAIN cache : cache[i].key = command
       THEN [i \in DOMAIN cache |-> IF cache[i].key = command THEN entry ELSE cache[i]]
       ELSE Append(cache, entry)

\* HelpExecutor.updateCache; `if (oldestKey)` is false for the key ""
updateCache(h, command, result, t) ==
  LET kept == IF Len(h.cache) >= cacheMaxSize
                THEN LET oldestKey == h.cache[1].key
                     IN IF oldestKey # "" THEN Tail(h.cache) ELSE h.cache
                ELSE h.cache
  IN [h EXCEPT !.cache = cacheSet(kept, command, result, t)]

\* n copies of x
Copies(n, x) == [i \in 1..n |-> x]

\* `.then((result) => { callback(result); })` runs for the calls cs; the
\* callback of the picker keeps the flags of the result it is handed
\* (`availableFlags = result.flags`) and shows them
invoke(h, cs, result) ==
  [h EXCEPT !.calls = [c \in DOMAIN @ |->
                         IF \E i \in DOMAIN cs : cs[i] = c
                           THEN [@[c] EXCEPT !.invoked = @ + 1] ELSE @[c]],
            !.shown = IF cs # <<>> THEN result ELSE @]

\* resolve(result) of the promise of execution e, and what getHelp does when
\* the promise it awaits is fulfilled: the caller that started the execution
\* updates the cache and drops the pending request, every caller gets the
\* result, and the callbacks chained to the promise run
resolve(h, e, result, t) ==
  IF h.execs[e].resolved THEN h
  ELSE LET command == h.execs[e].command
           cached == updateCache(h, command, result, t)
       IN invoke([cached EXCEPT !.execs[e].resolved = TRUE,
                                !.execs[e].result = result,
                                !.pendingRequests[command] = NoExec,
                                !.out = @ \o Copies(h.execs[e].waiters,
                                                    [command |-> command, result |-> result,
                                                     exec |-> e])],
                 h.execs[e].callbacks, result)

\* executeHelp.tryNextFlag, called by attempt n (0: by executeHelp itself)
tryNextFlag(h, e, n, t) ==
  IF h.execs[e].flagIndex >= Len(helpFlags)
    THEN resolve(h, e, Exhausted(h.execs[e].command), t)
    ELSE [h EXCEPT !.execs[e].flagIndex = @ + 1,
                   !.execs[e].attempts[h.execs[e].flagIndex + 1] =
                      [st |-> "running", timer |-> TRUE]]

\* HelpExecutor.executeHelp: a new promise, and the first candidate started
executeHelp(h, command, t) ==
  LET e == Len(h.execs) + 1
      fresh == [command |-> command, flagIndex |-> 0,
                attempts |-> [n \in DOMAIN helpFlags |-> NoAttempt],
                resolved |-> FALSE, result |-> NotResolved, waiters |-> 0,
                callbacks |-> <<>>]
  IN tryNextFlag([h EXCEPT !.execs = Append(@, fresh)], e, 0, t)

\* getHelp that starts an execution whatever is pending
getHelpAlwaysExecuting(h, command, t) ==
  IF isFresh(h, command, t)
    THEN [h EXCEPT !.out = Append(@, [command |-> command,
                                      result |-> cacheGet(h, command)[1].result,
                                      exec |-> NoExec])]
    ELSE LET e == Len(h.execs) + 1
         IN [executeHelp(h, command, t) EXCEPT !.pendingRequests[command] = e,
                                               !.execs[e].waiters = 1]

\* getHelp that believes whatever the cache holds
getHelpIgnoringAge(h, command, t) ==
  IF cacheHas(h, command)
    THEN [h EXCEPT !.out = Append(@, [command |-> command,
                                      result |-> cacheGet(h, command)[1].result,
                                      exec |-> NoExec])]
    ELSE IF h.pendingRequests[command] # NoExec
      THEN [h EXCEPT !.execs[h.pendingRequests[command]].waiters = @ + 1]
      ELSE LET e == Len(h.execs) + 1
           IN [executeHelp(h, command, t) EXCEPT !.pendingRequests[command] = e,
                                                 !.execs[e].waiters = 1]

\* HelpExecutor.getHelp up to its await
getHelp(h, command, t) ==
  IF isFresh(h, command, t)
    THEN [h EXCEPT !.out = Append(@, [command |-> command,
                                      result |-> cacheGet(h, command)[1].result,
                                      exec |-> NoExec])]
    ELSE IF h.pendingRequests[command] # NoExec
      THEN [h EXCEPT !.execs[h.pendingRequests[command]].waiters = @ + 1]
      ELSE LET e == Len(h.execs) + 1
           IN [executeHelp(h, command, t) EXCEPT !.pendingRequests[command] = e,
                                                 !.execs[e].waiters = 1]

\* clearTimeout: a timer that is still scheduled will not fire
clearTimeout(h, c) ==
  IF c # NoTimer /\ h.calls[c].timer = "scheduled"
    THEN [h EXCEPT !.calls[c].timer = "cleared"] ELSE h

\* setTimeout(..., debounceMs) of a getDebouncedHelp call with its callback;
\* the handle of the timer is the number of the call
setTimeout(h, command) ==
  [h EXCEPT !.calls = Append(@, [command |-> command, timer |-> "scheduled", invoked |-> 0])]

\* getDebouncedHelp that leaves the timer of the command scheduled
getDebouncedHelpKeepingTimer(h, command) ==
  LET timer == Len(h.calls) + 1
  IN [setTimeout(h, command) EXCEPT !.debounceTimers[command] = timer,
                                    !.lastQuery = command]

\* HelpExecutor.getDebouncedHelp: the timer of this command is replaced
getDebouncedHelp(h, command) ==
  LET existingTimer == h.debounceTimers[command]
      timer == Len(h.calls) + 1
  IN [setTimeout(clearTimeout(h, existingTimer), command)
        EXCEPT !.debounceTimers[command] = timer, !.lastQuery = command]

\* the callback of the debounce timer of call c: the callback of the call is
\* chained to the promise of getHelp, and runs at once when the promise is
\* fulfilled already (a result from the cache)
debounceTimerFired(h, c, t) ==
  LET command == h.calls[c].command
      fired == [h EXCEPT !.calls[c].timer = "fired", !.debounceTimers[command] = NoTimer]
      got == getHelp(fired, command, t)
  IN IF isFresh(fired, command, t)
       THEN invoke(got, <<c>>, cacheGet(fired, command)[1].result)
       ELSE [got EXCEPT !.execs[got.pendingRequests[command]].callbacks = Append(@, c)]

\* `stdout || stderr`
outputOf(b) == IF stdoutOf(b) # <<>> THEN stdoutOf(b) ELSE stderrOf(b)

\* the 'close' handler of attempt n of execution e
onClose(h, e, n, t) ==
  LET output == outputOf(programs[n])
      closed == [h EXCEPT !.execs[e].attempts[n] = [st |-> "closed", timer |-> FALSE]]
  IN IF output # <<>> /\ TextLen(output) > MinHelpLength
       THEN resolve(closed, e, parse(h.execs[e].command, output), t)
       ELSE tryNextFlag(closed, e, n, t)

\* the 'error' handler of attempt n of execution e
onError(h, e, n, t) ==
  tryNextFlag([h EXCEPT !.execs[e].attempts[n] = [st |-> "errored", timer |-> FALSE]], e, n, t)

\* a timeout callback that terminates the process and tries nothing further
onTimeoutKillOnly(h, e, n, t) ==
  [h EXCEPT !.execs[e].attempts[n] = [st |-> "killed", timer |-> FALSE]]

\* the timeout callback of attempt n of execution e
onTimeout(h, e, n, t) ==
  tryNextFlag([h EXCEPT !.execs[e].attempts[n] = [st |-> "killed", timer |-> FALSE]], e, n, t)

\* HelpExecutor.dispose
RECURSIVE clearEach(_, _)
clearEach(h, timers) ==
  IF timers = {} THEN h
  ELSE LET c == CHOOSE x \in timers : TRUE IN clearEach(clearTimeout(h, c), timers \ {c})

disposeHelp(h) ==
  [clearEach(h, {h.debounceTimers[k] : k \in HelpKeys})
     EXCEPT !.debounceTimers = [k \in HelpKeys |-> NoTimer], !.cache = <<>>]

\* The window w matches a built-in pattern or a pattern the user supplied.
UserMatches(w) == \E pat \in BuiltinPatterns \cup promptPatterns : Occurs(pat, w)
\* The trailing window of session id, once the chunk data has been received,
\* matches such a pattern.
WindowMatches(id, data) == UserMatches(Trailing(detector[id].tail \o data))

\* the event a HelpExecutor step serves
HelpOp(o, command, e, n) == [op |-> o, command |-> command, exec |-> e, n |-> n]

\* the lines a help text is made of
FileLine == HelpLine(2, "", "--file", "FILE", 3, <<"Input", "file">>)
PathLine == HelpLine(2, "", "--file", "<path>", 3, <<"Input", "file">>)
WeirdLine == HelpLine(0, "", "--weird-flag", "", 3, <<"does", "a", "thing">>)
QuietLine == HelpLine(2, "-q", "", "", 1, <<"quiet", "mode">>)
OptionalLine == HelpLine(0, "", "", "", 0, <<"optional", "arguments:">>)
Lines == {UsageLine, OptionalLine, VerboseLine, FileLine, PathLine, WeirdLine, QuietLine,
          ProseLine, DeepLine}
RECURSIVE TextsOfLen(_)
TextsOfLen(n) ==
  IF n = 0 THEN {<<>>}
  ELSE {Append(t, l) : t \in TextsOfLen(n - 1), l \in Lines}
Texts == UNION {TextsOfLen(n) : n \in 0..MaxLines}
NotParsed == ParsedHelp("", <<>>, <<"not parsed">>)

\* the values a variable has in process.env and in config.env
InheritedValues == {Absent, Undefined, "inherited"}
ConfiguredValues == {Absent, "configured"}
NotBuilt == [k \in EnvKeys |-> Undefined]
\* an empty process.env and no extra variables
EnvFixed == processEnv = NoEnv /\ configEnv = NoEnv

\* the configurations: with and without a program name, arguments, a shell
\* override, auto-run and direct mode
Configs ==
  [command : {"", "claude"}, args : {<<>>, <<"--resume">>}, autoRun : BOOLEAN,
   shell : {"", "/bin/zsh"}, directMode : BOOLEAN]
\* the defaults of the settings
DefaultConfig ==
  [command |-> "claude", args |-> <<>>, autoRun |-> TRUE, shell |-> "", directMode |-> TRUE]
\* the default configuration, and a user who keeps what the pickers offer
ConfigFixed == config = DefaultConfig /\ pickCap = OnePick

\* ---------------------------------------------------------------- Init
Init ==
  /\ terminals = <<>>
  /\ activeTerminalId = NoId
  /\ terminalCounter = 0
  /\ nextId = 1
  /\ pending = {}
  /\ pickerOpen = 0
  /\ workspaceFolders \in {1, 2}
  /\ ptys = [i \in Ids |-> 0]
  /\ procs = [q \in Pids |-> NoProc]
  /\ isRestarting = FALSE
  /\ restartTimers = <<>>
  /\ restartCount = 0
  /\ view = FALSE
  /\ webviewOpen = FALSE
  /\ readyPending = FALSE
  /\ disposed = FALSE
  /\ promptPatterns \in SUBSET CustomCandidates
  /\ detector = [i \in Ids |-> NoDetectorState]
  /\ everMatched = {}
  /\ notified = [i \in Ids |-> "none"]
  /\ idCap \in {DetIds, FewIds, MaxIds}
  /\ config \in Configs
  /\ pickCap \in {OnePick, MaxPicks}
  /\ out = <<>>
  /\ lastOp = Op("init", NoId)
  /\ programs \in [DOMAIN helpFlags -> Behaviours]
  /\ now = 0
  /\ help = [cache |-> <<>>,
             pendingRequests |-> [k \in HelpKeys |-> NoExec],
             debounceTimers |-> [k \in HelpKeys |-> NoTimer],
             execs |-> <<>>, calls |-> <<>>, lastQuery |-> "",
             shown |-> ParsedHelp("", <<>>, NoErrors), out |-> <<>>]
  /\ helpOp = HelpOp("init", "", NoExec, 0)
  /\ probeCap \in {OneProbe, FewProbes, MaxProbes}
  /\ helpText \in Texts
  /\ parsed = NotParsed
  /\ processEnv \in [EnvKeys -> InheritedValues]
  /\ configEnv \in [EnvKeys -> ConfiguredValues]
  /\ childEnv = NotBuilt

\* ------------------------------------------------------------- actions
\* A continuation whose awaited selection did not have to ask the user is a
\* microtask: it runs before the next event is taken.
NoMicrotask == \A p \in pending : p.suspended
\* the extension is active: commands and webview resolution can be invoked
Alive == ~disposed /\ NoMicrotask
\* a message of the webview can arrive
FromWebview == Alive /\ webviewOpen
CanAllocate == nextId <= idCap
CanSpawn(ok) == ok => \E q \in Pids : procs[q].st = "none"

ResolveWebviewView ==
  /\ Alive /\ ~webviewOpen
  /\ Commit([Cur EXCEPT !.view = TRUE, !.webviewOpen = TRUE, !.readyPending = TRUE],
            Op("resolveWebviewView", NoId))

WebviewDisposed ==
  /\ FromWebview
  /\ Commit(killAll([Cur EXCEPT !.webviewOpen = FALSE, !.readyPending = FALSE]),
            Op("onDidDispose", NoId))

HandleReady ==
  /\ FromWebview /\ readyPending /\ CanAllocate
  /\ Commit(createTerminalBegin([Cur EXCEPT !.readyPending = FALSE], NoId, NoPick),
            Op("ready", nextId))

\* the newTab message of the webview and the claudeTerminal.newTab command
HandleNewTab ==
  /\ Alive /\ CanAllocate
  /\ Commit(createTerminalBegin(Cur, NoId, NoPick), Op("newTab", nextId))

HandleNewTabWithCommand ==
  /\ FromWebview /\ pickerOpen = 0
  /\ Commit([Cur EXCEPT !.pickerOpen = 1], Op("newTabWithCommand", NoId))

\* What promptForCommand returns: cancelled, the command line it offered
\* (the configured command and arguments), or another one the user typed.
PickerResults ==
  {[command |-> "", args |-> <<>>, cancelled |-> TRUE],
   [command |-> config.command, args |-> config.args, cancelled |-> FALSE]}
  \cup (IF pickCap >= MaxPicks
          THEN {[command |-> "aider", args |-> <<"--yes">>, cancelled |-> FALSE]} ELSE {})

\* promptAndCreateTerminal after `await promptForCommand`
PickerResolved ==
  /\ NoMicrotask /\ pickerOpen = 1
  /\ \E result \in PickerResults :
       /\ result.command # "" => CanAllocate /\ ~disposed
       /\ Commit(IF result.cancelled \/ result.command = ""
                   THEN [Cur EXCEPT !.pickerOpen = 0]
                 ELSE createTerminalBegin([Cur EXCEPT !.pickerOpen = 0], NoId,
                                          [command |-> result.command, args |-> result.args]),
                 Op("promptForCommand", NoId))

\* What selectWorkingDirectory resolves to: the first folder unless there are
\* several, then the folder the user selects (the first when the selection is
\* cancelled).
SelectedFolders(p) ==
  IF p.suspended /\ pickCap >= MaxPicks THEN 1..workspaceFolders ELSE {1}
\* `const { path: cwd } = await selectWorkingDirectory()`: the path of the
\* result where the result has one, undefined where the result is the string
\* that PtyManager.selectWorkingDirectory returns
Destructured(folder) == {folder, NoCwd}

\* createTerminal / createTerminalWithCommand continue after selectWorkingDirectory.
\* lastOp.x: the session whose close started the call (NoId: none)
\* lastOp.data of a step that spawns: whether nodePty.spawn threw
SpawnResult(ok) == IF ok THEN <<>> ELSE <<"spawnFailed">>

ResumeCreate ==
  \E p \in pending, ok \in BOOLEAN :
  \E folder \in SelectedFolders(p) : \E cwd \in Destructured(folder) :
    /\ NoMicrotask \/ ~p.suspended
    /\ CanSpawn(ok)
    /\ Commit(createTerminalResume(Cur, p, cwd, ok),
              [OpX("createTerminal", p.id, p.replaces) EXCEPT !.data = SpawnResult(ok)])

ClosingLast(id) == Len(terminals) = 1 /\ terminals[1].id = id

\* lastOp.x: the session that was active when the close was requested
HandleCloseTab ==
  \E id \in Ids :
    /\ FromWebview
    /\ ClosingLast(id) => CanAllocate
    /\ Commit(closeTerminal(Cur, id),
              OpX("closeTab", id, activeTerminalId))

CloseActiveTerminal ==
  /\ Alive
  /\ ClosingLast(activeTerminalId) => CanAllocate
  /\ Commit(closeActiveTerminal(Cur),
            OpX("closeTab", activeTerminalId, activeTerminalId))

\* lastOp.x: the session that was active when the switch was requested
HandleSwitchTab ==
  \E id \in Ids :
    /\ FromWebview
    /\ Commit(switchToTerminal(Cur, id),
              OpX("switchTab", id, activeTerminalId))

SwitchToNextTerminal ==
  /\ Alive
  /\ Commit(switchToNextTerminal(Cur), Op("nextTab", NoId))

SwitchToPreviousTerminal ==
  /\ Alive
  /\ Commit(switchToPreviousTerminal(Cur), Op("previousTab", NoId))

Restart ==
  \E ok \in BOOLEAN :
    /\ Alive /\ restartCount < MaxRestarts
    /\ CanSpawn(ok)
    /\ Commit(restart(Cur, ok),
              [Op("restart", activeTerminalId) EXCEPT !.data = SpawnResult(ok)])

\* the callback of restart()'s setTimeout(..., 100)
RestartTimer ==
  /\ NoMicrotask /\ restartTimers # <<>>
  /\ Commit(restartTimerFired(Cur), Op("restartTimer", Head(restartTimers)))

\* lastOp.x: 1 when the show-timer of the session was pending at the keystroke
HandleInput ==
  \E id \in Ids :
    /\ FromWebview
    /\ Commit(handleInput(Cur, id),
              OpX("input", id, IF detector[id].timer THEN 1 ELSE 0))

\* lastOp.data of a step that calls into a handle: whether the call threw
CallResult(threw) == IF threw THEN <<"threw">> ELSE <<>>

\* The resize message of the webview.  IPty.resize on the handle of a process
\* that has exited is left to the pty library: it returns or it throws.
HandleResize ==
  \E id \in Ids, threw \in BOOLEAN :
    /\ FromWebview
    /\ threw => forwards(Cur, id) /\ ~LiveProcess(Cur, id)
    /\ Commit(handleResize(Cur, id),
              [OpX("resize", id, 0) EXCEPT !.data = CallResult(threw)])

\* a process writes to its pty.
\* lastOp.x: 1 when a show-timer of the session was pending at the chunk
PtyData ==
  \E pid \in Pids, data \in Chunks :
    /\ NoMicrotask /\ procs[pid].st \in {"running", "killed"}
    /\ CommitState(handlePtyData(Cur, procs[pid].tid, data),
                   [OpX("data", procs[pid].tid,
                        IF detector[procs[pid].tid].timer THEN 1 ELSE 0)
                      EXCEPT !.data = data])
    /\ everMatched' =
         IF WindowMatches(procs[pid].tid, data) /\ ~disposed /\ view
           THEN everMatched \cup {procs[pid].tid} ELSE everMatched

\* a process has exited: its exit event is delivered.
\* lastOp.x: the restart() call that killed the process (0: none did)
PtyExit ==
  \E pid \in Pids :
    /\ NoMicrotask /\ procs[pid].st \in {"running", "killed"}
    /\ Commit(handlePtyExit(
                [Cur EXCEPT !.procs[pid] =
                   IF procs[pid].st = "running" THEN [@ EXCEPT !.st = "exited"] ELSE NoProc],
                procs[pid].tid),
              OpX("exit", procs[pid].tid, procs[pid].killedBy))

\* the show-timer of a session's detector state fires
ShowTimer ==
  \E id \in Ids :
    /\ NoMicrotask /\ detector[id].armed > 0
    /\ Commit(onShowTimer(Cur, id), Op("showTimer", id))

Dispose ==
  /\ Alive
  /\ Commit(dispose(Cur), Op("dispose", NoId))

\* The session multiplexer: creation, close, switch and navigation.
MuxNext ==
  \/ ResolveWebviewView
  \/ HandleReady
  \/ HandleNewTab
  \/ HandleNewTabWithCommand
  \/ PickerResolved
  \/ ResumeCreate
  \/ HandleCloseTab
  \/ CloseActiveTerminal
  \/ HandleSwitchTab
  \/ SwitchToNextTerminal
  \/ SwitchToPreviousTerminal

MuxInit ==
  /\ idCap = MaxIds /\ promptPatterns = {}
  /\ programs = [n \in DOMAIN helpFlags |-> "none"] /\ probeCap = OneProbe /\ helpText = <<>>
  /\ EnvFixed /\ ConfigFixed
  /\ Init

Spec == MuxInit /\ [][MuxNext]_vars

\* The multiplexer with restart and the exit events of the processes.
RestartNext ==
  \/ ResolveWebviewView
  \/ WebviewDisposed
  \/ HandleReady
  \/ HandleNewTab
  \/ HandleNewTabWithCommand
  \/ PickerResolved
  \/ ResumeCreate
  \/ HandleCloseTab
  \/ CloseActiveTerminal
  \/ HandleSwitchTab
  \/ SwitchToNextTerminal
  \/ SwitchToPreviousTerminal
  \/ Restart
  \/ RestartTimer
  \/ PtyExit
  \/ Dispose

RestartInit ==
  /\ idCap = FewIds /\ promptPatterns = {}
  /\ programs = [n \in DOMAIN helpFlags |-> "none"] /\ probeCap = OneProbe /\ helpText = <<>>
  /\ EnvFixed /\ ConfigFixed
  /\ Init

SpecRestart == RestartInit /\ [][RestartNext]_vars

\* The prompt-wait detector fed by the output and the keystrokes of a session.
DetectorNext ==
  \/ ResolveWebviewView
  \/ HandleReady
  \/ HandleNewTab
  \/ ResumeCreate
  \/ HandleCloseTab
  \/ HandleInput
  \/ HandleResize
  \/ PtyData
  \/ PtyExit
  \/ ShowTimer
  \/ Dispose

DetectorInit ==
  /\ idCap = DetIds /\ workspaceFolders = 1
  /\ programs = [n \in DOMAIN helpFlags |-> "none"] /\ probeCap = OneProbe /\ helpText = <<>>
  /\ EnvFixed /\ ConfigFixed
  /\ Init

SpecDetector == DetectorInit /\ [][DetectorNext]_vars

\* The detector while sessions are closed: the events of a killed process
\* can still arrive after the close of its session.
CloseNext ==
  \/ ResolveWebviewView
  \/ HandleReady
  \/ ResumeCreate
  \/ HandleCloseTab
  \/ PtyData
  \/ PtyExit
  \/ ShowTimer

CloseInit ==
  /\ idCap = FewIds /\ workspaceFolders = 1 /\ promptPatterns = {}
  /\ programs = [n \in DOMAIN helpFlags |-> "none"] /\ probeCap = OneProbe /\ helpText = <<>>
  /\ EnvFixed /\ ConfigFixed
  /\ Init

SpecClose == CloseInit /\ [][CloseNext]_vars

\* Two sessions side by side, each with its process and its detector state,
\* and the close of either.
FrameNext ==
  \/ ResolveWebviewView
  \/ HandleReady
  \/ HandleNewTab
  \/ ResumeCreate
  \/ HandleCloseTab
  \/ PtyData
  \/ ShowTimer

FrameInit ==
  /\ idCap = FewIds /\ workspaceFolders = 1 /\ promptPatterns = {}
  /\ programs = [n \in DOMAIN helpFlags |-> "none"] /\ probeCap = OneProbe /\ helpText = <<>>
  /\ EnvFixed /\ ConfigFixed
  /\ Init

SpecFrame == FrameInit /\ [][FrameNext]_vars

\* What the processes of one session run: creation with the configured and
\* with a custom command, in a chosen folder, and restart, under every
\* configuration.
SpawnNext ==
  \/ ResolveWebviewView
  \/ HandleReady
  \/ HandleNewTabWithCommand
  \/ PickerResolved
  \/ ResumeCreate
  \/ Restart
  \/ RestartTimer
  \/ PtyExit

SpawnInit ==
  /\ idCap = DetIds /\ pickCap = MaxPicks /\ promptPatterns = {}
  /\ programs = [n \in DOMAIN helpFlags |-> "none"] /\ probeCap = OneProbe /\ helpText = <<>>
  /\ EnvFixed
  /\ Init

SpecSpawn == SpawnInit /\ [][SpawnNext]_vars

\* ------------------------------------------------- help engine: actions
HelpCommit(h, o) ==
  /\ help' = h
  /\ helpOp' = o
  /\ UNCHANGED <<programs, probeCap, muxVars, parseVars, envVars>>

\* the call would start a probe execution
StartsProbe(k) == ~isFresh(help, k, now) /\ help.pendingRequests[k] = NoExec
\* the call joins the pending request
JoinsProbe(k) == ~isFresh(help, k, now) /\ help.pendingRequests[k] # NoExec

CanGetHelp(k) ==
  /\ StartsProbe(k) => Len(help.execs) < probeCap
  /\ JoinsProbe(k) => help.execs[help.pendingRequests[k]].waiters < MaxWaiters

\* preloadCommonCommands and the initial load of the picker call getHelp
GetHelp ==
  \E k \in HelpKeys :
    /\ CanGetHelp(k)
    /\ now' = now
    /\ HelpCommit(getHelp(HelpCur, k, now), HelpOp("getHelp", k, help.pendingRequests[k], 0))

\* the picker asks for the command being typed
GetDebouncedHelp ==
  \E k \in HelpKeys \ {""} :
    /\ Len(help.calls) < MaxCalls
    /\ now' = now
    /\ HelpCommit(getDebouncedHelp(HelpCur, k), HelpOp("getDebouncedHelp", k, NoExec, 0))

\* the debounce timer of a call fires
DebounceTimer ==
  \E c \in DOMAIN help.calls :
    LET k == help.calls[c].command
    IN /\ help.calls[c].timer = "scheduled"
       /\ CanGetHelp(k)
       /\ now' = now
       /\ HelpCommit(debounceTimerFired(HelpCur, c, now),
                     HelpOp("debounceTimer", k, help.pendingRequests[k], 0))

ProbeClose ==
  \E e \in DOMAIN help.execs : \E n \in DOMAIN helpFlags :
    /\ \/ help.execs[e].attempts[n].st = "running" /\ programs[n] \notin {"hang", "error"}
       \/ help.execs[e].attempts[n].st \in {"killed", "errored"}
    /\ now' = now
    /\ HelpCommit(onClose(HelpCur, e, n, now), HelpOp("close", help.execs[e].command, e, n))

ProbeError ==
  \E e \in DOMAIN help.execs : \E n \in DOMAIN helpFlags :
    /\ help.execs[e].attempts[n].st = "running" /\ programs[n] = "error"
    /\ now' = now
    /\ HelpCommit(onError(HelpCur, e, n, now), HelpOp("error", help.execs[e].command, e, n))

ProbeTimeout ==
  \E e \in DOMAIN help.execs : \E n \in DOMAIN helpFlags :
    /\ help.execs[e].attempts[n].timer
    /\ now' = now
    /\ HelpCommit(onTimeout(HelpCur, e, n, now), HelpOp("timeout", help.execs[e].command, e, n))

Tick ==
  /\ now < MaxTime
  /\ now' = now + 1
  /\ HelpCommit(HelpCur, HelpOp("tick", "", NoExec, 0))

DisposeHelp ==
  /\ now' = now
  /\ HelpCommit(disposeHelp(HelpCur), HelpOp("dispose", "", NoExec, 0))

\* one probe execution, of a program that behaves in any way
ProbeNext ==
  \/ GetHelp
  \/ ProbeClose
  \/ ProbeError
  \/ ProbeTimeout

ProbeInit ==
  /\ idCap = DetIds /\ workspaceFolders = 1 /\ promptPatterns = {}
  /\ probeCap = OneProbe /\ helpText = <<>>
  /\ EnvFixed /\ ConfigFixed
  /\ Init

SpecProbe == ProbeInit /\ [][ProbeNext]_vars

\* The same, with time passing: a timeout that is scheduled fires unless it
\* is cleared.  Nothing is assumed of the probed processes, which may never
\* close, whether they have been sent SIGTERM or not.
SpecProbeLive == ProbeInit /\ [][ProbeNext]_vars /\ WF_vars(ProbeTimeout)

\* the programs the cache and the debounce timers are exercised with: one
\* that prints help for --help, one that knows none of the candidates, one
\* that prints help on stderr for -h only
Profiles ==
  {<<"help", "none", "none">>, <<"none", "none", "none">>, <<"short", "prose", "none">>}

\* the cache and the pending requests over time
CacheNext ==
  \/ GetHelp
  \/ ProbeClose
  \/ Tick
  \/ DisposeHelp

CacheInit ==
  /\ idCap = DetIds /\ workspaceFolders = 1 /\ promptPatterns = {}
  /\ probeCap = MaxProbes /\ helpText = <<>>
  /\ programs \in Profiles
  /\ EnvFixed /\ ConfigFixed
  /\ Init

SpecCache == CacheInit /\ [][CacheNext]_vars

\* the debounce timers of the picker
DebounceNext ==
  \/ GetDebouncedHelp
  \/ DebounceTimer
  \/ ProbeClose
  \/ DisposeHelp

DebounceInit ==
  /\ idCap = DetIds /\ workspaceFolders = 1 /\ promptPatterns = {}
  /\ probeCap = FewProbes /\ helpText = <<>>
  /\ programs \in Profiles
  /\ EnvFixed /\ ConfigFixed
  /\ Init

SpecDebounce == DebounceInit /\ [][DebounceNext]_vars

\* --------------------------------------------------- parser: actions
Parse ==
  /\ parsed = NotParsed
  /\ parsed' = parse("prog", helpText)
  /\ helpText' = helpText
  /\ UNCHANGED <<muxVars, helpVars, envVars>>

ParseNext == Parse

ParseInit ==
  /\ idCap = DetIds /\ workspaceFolders = 1 /\ promptPatterns = {}
  /\ programs = [n \in DOMAIN helpFlags |-> "none"] /\ probeCap = OneProbe
  /\ EnvFixed /\ ConfigFixed
  /\ Init

SpecParse == ParseInit /\ [][ParseNext]_vars

\* ---------------------------------------------- child environment: actions
\* PtyManager.spawn builds the environment of the child process
BuildEnvironment ==
  /\ childEnv = NotBuilt
  /\ childEnv' = buildEnvironment(processEnv, configEnv)
  /\ UNCHANGED <<processEnv, configEnv, muxVars, helpVars, parseVars>>

\* the single-terminal provider does the same in _startTerminal
StartTerminal ==
  /\ childEnv = NotBuilt
  /\ childEnv' = startTerminalEnvironment(processEnv, configEnv)
  /\ UNCHANGED <<processEnv, configEnv, muxVars, helpVars, parseVars>>

EnvNext ==
  \/ BuildEnvironment
  \/ StartTerminal

EnvInit ==
  /\ idCap = DetIds /\ workspaceFolders = 1 /\ promptPatterns = {} /\ ConfigFixed
  /\ programs = [n \in DOMAIN helpFlags |-> "none"] /\ probeCap = OneProbe /\ helpText = <<>>
  /\ Init

SpecEnv == EnvInit /\ [][EnvNext]_vars

\* ----------------------------------------------------- session multiplexer
\* the positions of the sessions whose active flag is set
ActiveSessions == {i \in DOMAIN terminals : terminals[i].isActive}

\* C1: in every reachable state, whatever the interleaving of creations (with
\* or without a custom command), switches, closes, next, previous and restart,
\* at most one session of the session set has its active flag set.
AtMostOneActive == Cardinality(ActiveSessions) <= 1

\* two sessions after a creation that followed a restart: the session that
\* was active before the creation had to be deactivated
AtMostOneActiveWitness ==
  /\ lastOp.op = "createTerminal"
  /\ Len(terminals) = 2
  /\ restartCount >= 1
  /\ Cardinality(ActiveSessions) = 1

\* a creation has completed: an allocated id is no longer awaiting its selection
SessionCreated == \E i \in 1..(nextId - 1) : \A p \in pending : p.id # i

\* C2: when the session set is non-empty exactly one session has the active
\* flag and getActiveId names it; once a session has been created the set is
\* empty only while the creation started by the close of the last session is
\* still to complete.
OneActiveOrRecreating ==
  /\ terminals # <<>> =>
       /\ Cardinality(ActiveSessions) = 1
       /\ \A i \in ActiveSessions : terminals[i].id = getActiveId(Cur)
  /\ (SessionCreated /\ terminals = <<>>) =>
       \E p \in pending : p.replaces # NoId

\* the last session has just been closed and its replacement is on its way
OneActiveOrRecreatingWitness ==
  /\ lastOp.op = "closeTab"
  /\ lastOp.id # NoId
  /\ terminals = <<>>
  /\ \E p \in pending : p.replaces = lastOp.id

\* C3: the close of the only session empties the set and starts the creation
\* of a new session; when that creation completes with no other creation in
\* between, the set holds exactly one session, it is not the closed one, and
\* it is active.
CloseOfLastRecreates ==
  [][ /\ (lastOp'.op = "closeTab" /\ ClosingLast(lastOp'.id)) =>
           /\ terminals' = <<>>
           /\ \E p \in pending' \ pending :
                p.replaces = lastOp'.id /\ p.id # lastOp'.id
      /\ (lastOp'.op = "createTerminal" /\ lastOp'.x # NoId /\ terminals = <<>>) =>
           /\ Len(terminals') = 1
           /\ terminals'[1].id = lastOp'.id
           /\ terminals'[1].id # lastOp'.x
           /\ terminals'[1].isActive
           /\ activeTerminalId' = lastOp'.id
    ]_vars

\* the creation started by the close of the last session has completed
CloseOfLastRecreatesWitness ==
  /\ lastOp.op = "createTerminal"
  /\ lastOp.x # NoId
  /\ Len(terminals) = 1
  /\ terminals[1].id = lastOp.id

\* the active session is closed while other sessions remain
ClosesActiveAmongOthers ==
  /\ lastOp'.op = "closeTab"
  /\ lastOp'.id # NoId
  /\ lastOp'.id = activeTerminalId
  /\ has(Cur, lastOp'.id)
  /\ Len(terminals) > 1

\* the position in ts of the session created last: names are numbered in the
\* order of the createTerminal calls
MostRecentlyCreated(ts) ==
  CHOOSE i \in DOMAIN ts : \A j \in DOMAIN ts : ts[j].name <= ts[i].name

\* the close left the sessions rem, made the one at position k the only
\* active session, and created nothing
ClosedInto(rem, k) ==
  /\ SelectSeqIds(terminals') = SelectSeqIds(rem)
  /\ activeTerminalId' = rem[k].id
  /\ \A i \in DOMAIN terminals' : terminals'[i].isActive <=> i = k
  /\ nextId' = nextId
  /\ terminalCounter' = terminalCounter
  /\ pending' = pending

\* C4, as stated: the close of the active session while others remain makes
\* the most recently created remaining session active and creates no session,
\* whatever the order in which the working-directory selections resolved.
CloseActivatesMostRecentlyCreated ==
  [][ ClosesActiveAmongOthers =>
        LET rem == RemoveId(terminals, lastOp'.id)
        IN ClosedInto(rem, MostRecentlyCreated(rem)) ]_vars

\* C4, amended: the close of the active session while others remain makes
\* active the remaining session that was added to the session set last (the
\* one whose working-directory selection resolved last), and creates no session.
CloseActivatesLastAdded ==
  [][ ClosesActiveAmongOthers =>
        LET rem == RemoveId(terminals, lastOp'.id)
        IN ClosedInto(rem, Len(rem)) ]_vars

\* the active session was closed and the remaining sessions are not in the
\* order of their creation: the one added last is active, an older one
CloseActivatesLastAddedWitness ==
  /\ lastOp.op = "closeTab"
  /\ lastOp.id # NoId
  /\ lastOp.x = lastOp.id
  /\ Len(terminals) >= 2
  /\ terminals[Len(terminals)].isActive
  /\ MostRecentlyCreated(terminals) # Len(terminals)

RECURSIVE nextTimes(_, _)
nextTimes(s, n) == IF n = 0 THEN s ELSE nextTimes(switchToNextTerminal(s), n - 1)

RECURSIVE previousTimes(_, _)
previousTimes(s, n) ==
  IF n = 0 THEN s ELSE previousTimes(switchToPreviousTerminal(s), n - 1)

SwitchToTargetOrNothing ==
  [][ lastOp'.op = "switchTab" =>
        IF has(Cur, lastOp'.id)
          THEN /\ SelectSeqIds(terminals') = SelectSeqIds(terminals)
               /\ \A i \in DOMAIN terminals' :
                    terminals'[i].isActive <=> terminals'[i].id = lastOp'.id
               /\ activeTerminalId' = lastOp'.id
          ELSE /\ terminals' = terminals
               /\ activeTerminalId' = activeTerminalId
               /\ out' = <<>>
    ]_vars

\* a switch from one session to another one
SwitchToTargetOrNothingWitness ==
  /\ lastOp.op = "switchTab"
  /\ lastOp.x # NoId
  /\ lastOp.x # lastOp.id
  /\ activeTerminalId = lastOp.id
  /\ has(Cur, lastOp.x)

\* ------------------------------------------------------------------ restart
\* C7: the exit event of a process that restart() killed posts no exit message
\* when it arrives within the grace window of that restart (its timer is still
\* pending), and posts the exit message of its session when it arrives after
\* the window, the panel being there to receive it.
RestartExitSuppressedInWindow ==
  (lastOp.op = "exit" /\ lastOp.x # 0) =>
    IF lastOp.x \in SeqToSet(restartTimers)
      THEN out = <<>>
      ELSE (view /\ ~disposed) => out = <<Msg("output", lastOp.id, "exit")>>

\* ---------------------------------------------------------- prompt detector
NotificationOn(id) == Msg("setNotification", id, "on")
\* the handler of the step posts notification(on) for session id
EmitsOn(id) == \E i \in DOMAIN out' : out'[i] = NotificationOn(id)

KeystrokeCancelsArm ==
  [][ /\ (lastOp'.op = "input" /\ detector[lastOp'.id].timer) =>
           /\ ~detector'[lastOp'.id].timer
           /\ ~EmitsOn(lastOp'.id)
      /\ \A id \in Ids :
           /\ EmitsOn(id) =>
                lastOp'.op = "showTimer" /\ lastOp'.id = id /\ detector[id].timer
           /\ (~detector[id].timer /\ detector'[id].timer) =>
                lastOp'.op = "data" /\ lastOp'.id = id
    ]_vars

\* a keystroke has met the pending show-timer of an Idle session
KeystrokeCancelsArmWitness ==
  /\ lastOp.op = "input"
  /\ lastOp.x = 1
  /\ ~detector[lastOp.id].timer
  /\ ~detector[lastOp.id].waiting
  /\ out = <<>>

\* C10: notification(on) is posted only for a session that has received a
\* chunk after which its trailing window matched a built-in pattern or a
\* pattern the user supplied.
NoMatchNoNotification ==
  [][ \A id \in Ids : EmitsOn(id) => id \in everMatched ]_vars

\* a session has received nothing but non-matching chunks, more than the
\* window holds, with a pattern supplied by the user in force
NoMatchNoNotificationWitness ==
  /\ lastOp.op = "data"
  /\ promptPatterns # {}
  /\ lastOp.id \notin everMatched
  /\ Len(detector[lastOp.id].tail) = TailWindow
  /\ ~detector[lastOp.id].timer
  /\ ~detector[lastOp.id].waiting

\* ------------------------------------------------- calls without a process
\* C18: for a session without a live process (never started, spawn failed,
\* killed, or exited by itself) kill(id) changes nothing and is idempotent,
\* write and resize reach no handle, and no call raises an error.
DeadSessionCallsAreNoOps ==
  [][/\ \A id \in Ids :
          ~LiveProcess(Cur, id) =>
            /\ kill(Cur, id) = Cur
            /\ kill(kill(Cur, id), id) = kill(Cur, id)
     /\ (lastOp'.op \in {"input", "resize"} /\ ~LiveProcess(Cur, lastOp'.id)) =>
          /\ ~forwards(Cur, lastOp'.id)
          /\ lastOp'.data # CallResult(TRUE)
          /\ ptys' = ptys /\ procs' = procs]_vars

\* ------------------------------------------------------------ spawn failure
\* the step is a createTerminal or a restart whose spawn failed
SpawnFailed ==
  /\ lastOp'.op \in {"createTerminal", "restart"}
  /\ lastOp'.data = SpawnResult(FALSE)
  /\ lastOp'.id # NoId
\* the error texts the step posted
ErrorTexts == {i \in DOMAIN out' : out'[i].type = "output" /\ out'[i].arg = "error"}

\* what a failed spawn leaves of the sessions and the processes: the session
\* is in the set without a process handle, the handles and the processes of
\* the other sessions are untouched, and the set and the flags are those the
\* operation leaves when the spawn succeeds (restart: unchanged; createTerminal:
\* the new session is added last and is the active one)
FailedSpawnLeavesSessions ==
  LET id == lastOp'.id
  IN /\ \E i \in DOMAIN terminals' : terminals'[i].id = id
     /\ ptys'[id] = 0
     /\ \A j \in Ids \ {id} : ptys'[j] = ptys[j]
     /\ \A q \in Pids : procs[q].tid # id => procs'[q] = procs[q]
     /\ lastOp'.op = "restart" =>
          terminals' = terminals /\ activeTerminalId' = activeTerminalId
     /\ lastOp'.op = "createTerminal" =>
          /\ Len(terminals') = Len(terminals) + 1
          /\ \A i \in DOMAIN terminals :
               terminals'[i] = [terminals[i] EXCEPT !.isActive = FALSE]
          /\ terminals'[Len(terminals')].id = id
          /\ terminals'[Len(terminals')].isActive
          /\ activeTerminalId' = id

Unresolved(h, k) == {e \in DOMAIN h.execs : h.execs[e].command = k /\ ~h.execs[e].resolved}
\* what a caller of execution e receives
Delivery(h, e) == [command |-> h.execs[e].command, result |-> h.execs[e].result, exec |-> e]
\* the step calls getHelp
CallsGetHelp == helpOp'.op \in {"getHelp", "debounceTimer"}

\* C11: a getHelp(x) made while an earlier getHelp(x) is unresolved and no
\* fresh cache entry exists starts no probe execution and joins the pending
\* one, so one execution per name is in flight at any time; when it resolves,
\* every caller that joined receives its result.
DedupeJoinsPending ==
  [][/\ (CallsGetHelp /\ JoinsProbe(helpOp'.command)) =>
          /\ Len(help'.execs) = Len(help.execs)
          /\ help'.execs[helpOp'.exec].waiters = help.execs[helpOp'.exec].waiters + 1
          /\ help'.pendingRequests = help.pendingRequests
     /\ \A k \in HelpKeys : Cardinality(Unresolved(help', k)) <= 1
     /\ \A e \in DOMAIN help.execs :
          (~help.execs[e].resolved /\ help'.execs[e].resolved) =>
            help'.out = Copies(help.execs[e].waiters, Delivery(help', e))]_vars

\* an execution two callers waited for has resolved and both got its result
DedupeJoinsPendingWitness ==
  /\ helpOp.op = "close"
  /\ help.execs[helpOp.exec].resolved
  /\ help.execs[helpOp.exec].waiters = 2
  /\ help.out = <<Delivery(help, helpOp.exec), Delivery(help, helpOp.exec)>>
  /\ Len(help.execs) = 1

\* the result of the cache entry of command k, as a caller receives it
FromCache(h, k) == [command |-> k, result |-> cacheGet(h, k)[1].result, exec |-> NoExec]

LongOutput(n) == TextLen(outputOf(programs[n])) > MinHelpLength
\* attempt n of execution e is over: its process has closed, failed to start
\* or been killed at the timeout
Finished(h, e, n) == h.execs[e].attempts[n].st \in {"closed", "errored", "killed"}

\* C13: a probe execution resolves either with the parse of the output of a
\* candidate whose output (stdout, else stderr) is longer than 50 characters,
\* every candidate before it in the order --help, -h, help being over by
\* then, or with the exhaustion result once all three candidates are over;
\* and no candidate is started after the execution has resolved.
ProbeResultIsFirstLongOutput ==
  [][\A e \in DOMAIN help.execs :
       /\ (~help.execs[e].resolved /\ help'.execs[e].resolved) =>
            \/ /\ helpOp'.op = "close"
               /\ LongOutput(helpOp'.n)
               /\ help'.execs[e].result =
                    parse(help.execs[e].command, outputOf(programs[helpOp'.n]))
               /\ \A m \in 1..(helpOp'.n - 1) : Finished(help', e, m)
            \/ /\ help'.execs[e].result = Exhausted(help.execs[e].command)
               /\ \A m \in DOMAIN helpFlags : Finished(help', e, m)
       /\ help.execs[e].resolved => help'.execs[e].flagIndex = help.execs[e].flagIndex]_vars

\* an empty flag list comes with a diagnostic, a non-empty one with none
Diagnosed(r) == (r.flags = <<>>) = (r.parseErrors # NoErrors)

\* C14: every promise of getHelp is fulfilled with a result, never
\* rejected; every result an execution resolves with, every result handed
\* to a caller and every cached result has a non-empty diagnostic when its
\* flag list is empty and no diagnostic when it has a flag.
ResultsAreDiagnosed ==
  /\ \A e \in DOMAIN help.execs : help.execs[e].resolved => Diagnosed(help.execs[e].result)
  /\ \A i \in DOMAIN help.out : Diagnosed(help.out[i].result)
  /\ \A i \in DOMAIN help.cache : Diagnosed(help.cache[i].result)

\* a caller has just received the result of an execution that ran out of
\* candidates
ResultsAreDiagnosedWitness ==
  /\ helpOp.op \in {"close", "error", "timeout"}
  /\ help.out # <<>>
  /\ help.out[1].result.flags = <<>>
  /\ help.out[1].result.parseErrors = <<"Command does not support --help">>
  /\ help.execs[1].flagIndex = Len(helpFlags)

\* -------------------------------------------------------------- help parser
\* the strategy recognizes the text and extracts at least one flag from it
GnuWins(text) == gnuCanParse(text) /\ gnuParse("prog", text).flags # <<>>
ArgparseWins(text) == argparseCanParse(text) /\ argparseParse("prog", text).flags # <<>>
FallbackWins(text) == fallbackCanParse(text) /\ fallbackParse("prog", text).flags # <<>>

\* C15: parse returns the result of the GNU-style strategy when that one
\* recognizes the text and extracts a flag, else that of the argparse-style
\* strategy under the same condition, else that of the fallback under the
\* same condition, else an empty result; a strategy that recognizes the
\* text without extracting a flag does not end the chain.
ChainReturnsFirstWinner ==
  parsed # NotParsed =>
    parsed = IF GnuWins(helpText) THEN gnuParse("prog", helpText)
             ELSE IF ArgparseWins(helpText) THEN argparseParse("prog", helpText)
             ELSE IF FallbackWins(helpText) THEN fallbackParse("prog", helpText)
             ELSE ParsedHelp("prog", <<>>, <<"No flags found in help output">>)

\* a text the GNU-style strategy recognizes without extracting a flag has
\* been parsed by the argparse-style strategy
ChainReturnsFirstWinnerWitness ==
  /\ parsed # NotParsed
  /\ gnuCanParse(helpText) /\ ~GnuWins(helpText)
  /\ ArgparseWins(helpText)
  /\ parsed = argparseParse("prog", helpText)
  /\ parsed # fallbackParse("prog", helpText)

\* C16: no two flags of a parse result have the same long-form key.
NoDuplicateLongKeys ==
  parsed # NotParsed =>
    \A i, j \in DOMAIN parsed.flags : i # j => parsed.flags[i].flag # parsed.flags[j].flag

\* C19: the queries of a burst (each made while the debounce timer of the
\* one before is still scheduled) are coalesced into one probe execution for
\* the last query: a probe execution started by a debounce timer is for the
\* name queried last.
DebounceCoalescesBurst ==
  [][(helpOp'.op = "debounceTimer" /\ Len(help'.execs) > Len(help.execs)) =>
       helpOp'.command = help.lastQuery]_vars

\* C20: the cache never holds more than cacheMaxSize entries.
CacheWithinMaxSize == Len(help.cache) <= cacheMaxSize

\* ------------------------------------------------------------ cache contents
\* the step fulfils the promise of execution e: its result is stored
StoresResult(e) == ~help.execs[e].resolved /\ help'.execs[e].resolved
CachedKeys(cache) == {cache[i].key : i \in DOMAIN cache}
\* the keys of the entries no entry is older than
EarliestKeys(cache) ==
  {cache[i].key : i \in {i \in DOMAIN cache :
                           \A j \in DOMAIN cache : cache[i].timestamp <= cache[j].timestamp}}
\* the keys the step removes from the cache
EvictedKeys == CachedKeys(help.cache) \ CachedKeys(help'.cache)

\* C21: when a result is stored while the cache is at its maximum size, one
\* entry is evicted and no entry has an earlier timestamp than it (a refreshed
\* entry counting with its new timestamp); a result stored for a key that is
\* already cached evicts no entry.
EvictsEarliestTimestamp ==
  [][\A e \in DOMAIN help.execs :
       (StoresResult(e) /\ Len(help.cache) >= cacheMaxSize) =>
         IF help.execs[e].command \in CachedKeys(help.cache)
           THEN EvictedKeys = {}
           ELSE Cardinality(EvictedKeys) = 1 /\ EvictedKeys \subseteq EarliestKeys(help.cache)]_vars

\* C22: after a probe execution that ended in exhaustion the cache holds no
\* entry for its program, and a getHelp for the program would execute the
\* probes again; a result is cached with the time it was stored at.
ExhaustionIsNotCached ==
  [][\A e \in DOMAIN help.execs :
       StoresResult(e) =>
         IF help'.execs[e].result = Exhausted(help.execs[e].command)
           THEN /\ ~cacheHas(help', help.execs[e].command)
                /\ ~isFresh(help', help.execs[e].command, now')
                /\ help'.pendingRequests[help.execs[e].command] = NoExec
           ELSE cacheGet(help', help.execs[e].command) =
                  <<[key |-> help.execs[e].command, result |-> help'.execs[e].result,
                     timestamp |-> now]>>]_vars

\* -------------------------------------------------------- probe termination
\* an execution whose promise is still pending
ProbePending == \E e \in DOMAIN help.execs : ~help.execs[e].resolved

\* C23: the timeout of an attempt fires only while its process has neither
\* closed nor errored; it terminates the process and either starts the next
\* candidate or, none being left, resolves the execution; no more than three
\* attempts are made; and every execution eventually resolves, whatever the
\* probed program does, even if it never exits.
TimeoutBoundsEveryAttempt ==
  /\ [][helpOp'.op = "timeout" =>
          LET e == helpOp'.exec
              n == helpOp'.n
          IN /\ help.execs[e].attempts[n].st = "running"
             /\ help'.execs[e].attempts[n].st = "killed"
             /\ IF help.execs[e].flagIndex < Len(helpFlags)
                  THEN /\ help'.execs[e].flagIndex = help.execs[e].flagIndex + 1
                       /\ help'.execs[e].attempts[help'.execs[e].flagIndex].st = "running"
                       /\ help'.execs[e].attempts[help'.execs[e].flagIndex].timer
                  ELSE help'.execs[e].resolved]_vars
  /\ [](\A e \in DOMAIN help.execs : help.execs[e].flagIndex <= Len(helpFlags))
  /\ (ProbePending ~> ~ProbePending)

\* the execution for a program that never exits, whatever the flag, has
\* resolved at the third timeout
TimeoutBoundsEveryAttemptWitness ==
  /\ helpOp.op = "timeout"
  /\ helpOp.n = Len(helpFlags)
  /\ \A n \in DOMAIN helpFlags : programs[n] = "hang"
  /\ help.execs[helpOp.exec].resolved
  /\ help.execs[helpOp.exec].result = Exhausted(helpOp.command)
  /\ \A n \in DOMAIN helpFlags : help.execs[helpOp.exec].attempts[n].st = "killed"

\* ------------------------------------------------- prompt detector: waiting
NotificationOff(id) == Msg("setNotification", id, "off")
\* the waiting flag of session id in the session set (FALSE when it is not there)
WaitingFlag(ts, id) == \E i \in DOMAIN ts : ts[i].id = id /\ ts[i].waiting

\* C24: a keystroke for a session that is Waiting moves it to Idle at once,
\* with no show-timer left, and posts notification(off) for it and nothing
\* else, whether or not the trailing window of its output still matches a
\* pattern; notification(on) is posted by a firing show-timer only, and a
\* show-timer is armed only by an output chunk after which the window matches.
KeystrokeEndsWait ==
  [][ /\ (lastOp'.op = "input" /\ detector[lastOp'.id].waiting) =>
           /\ ~detector'[lastOp'.id].waiting
           /\ ~detector'[lastOp'.id].timer
           /\ out' = <<NotificationOff(lastOp'.id)>>
           /\ ~WaitingFlag(terminals', lastOp'.id)
      /\ \A id \in Ids :
           /\ EmitsOn(id) =>
                lastOp'.op = "showTimer" /\ lastOp'.id = id /\ detector[id].timer
           /\ (~detector[id].timer /\ detector'[id].timer) =>
                /\ lastOp'.op = "data" /\ lastOp'.id = id
                /\ WindowMatches(id, lastOp'.data)
    ]_vars

\* a keystroke has ended the wait of a session whose window still matches
KeystrokeEndsWaitWitness ==
  /\ lastOp.op = "input"
  /\ out = <<NotificationOff(lastOp.id)>>
  /\ ~detector[lastOp.id].waiting
  /\ ~detector[lastOp.id].timer
  /\ UserMatches(detector[lastOp.id].tail)
  /\ \E i \in DOMAIN terminals : terminals[i].id = lastOp.id /\ ~terminals[i].waiting

\* ------------------------------------------------ prompt detector: re-arming
\* the data event is handed to the detector
ChunkReachesDetector == lastOp'.op = "data" /\ view /\ ~disposed

\* C25: every output chunk of a session cancels the session's pending
\* show-timer before the window is matched again: after the chunk one
\* show-timer is scheduled for the session if the window matches and none if
\* it does not, so a timer armed by an earlier chunk cannot fire after a
\* later one; at most one show-timer per session is scheduled at any time,
\* and it is the one whose handle the state holds.
ChunkCancelsStaleArm ==
  [][ /\ ChunkReachesDetector =>
           /\ detector'[lastOp'.id].armed =
                (IF WindowMatches(lastOp'.id, lastOp'.data) THEN 1 ELSE 0)
           /\ detector'[lastOp'.id].timer = WindowMatches(lastOp'.id, lastOp'.data)
      /\ \A id \in Ids :
           /\ detector'[id].armed <= 1
           /\ detector'[id].timer = (detector'[id].armed = 1)
    ]_vars

\* a chunk that does not match has arrived while the show-timer armed by the
\* chunk before it was pending, and no timer is left
ChunkCancelsStaleArmWitness ==
  /\ lastOp.op = "data"
  /\ lastOp.x = 1
  /\ lastOp.id \in everMatched
  /\ Len(detector[lastOp.id].tail) = TailWindow
  /\ ~UserMatches(detector[lastOp.id].tail)
  /\ detector[lastOp.id].armed = 0
  /\ ~detector[lastOp.id].waiting
  /\ view /\ ~disposed

\* ---------------------------------------------------- detector after a close
\* session id has been created and closed
Closed(id) == id < nextId /\ ~has(Cur, id) /\ \A p \in pending : p.id # id
\* the handler of the step posts a notification event for session id
EmitsNotification(id) ==
  \E i \in DOMAIN out' : out'[i].type = "setNotification" /\ out'[i].id = id

\* C26: the close of a session discards its detector state, the show-timer
\* that was pending included, and from then on no notification event is
\* posted for the session, whatever arrives afterwards: the chunks the killed
\* process still delivers lead to no notification.
NoEventsAfterClose ==
  [][ /\ (lastOp'.op = "closeTab" /\ has(Cur, lastOp'.id)) =>
           /\ detector'[lastOp'.id] = NoDetectorState
           /\ ~EmitsNotification(lastOp'.id)
      /\ \A id \in Ids :
           Closed(id) => ~EmitsNotification(id)
    ]_vars

\* ---------------------------------------------------------- debounce timers
\* the calls for program name k whose debounce timer is scheduled
ScheduledFor(h, k) ==
  {c \in DOMAIN h.calls : h.calls[c].command = k /\ h.calls[c].timer = "scheduled"}
\* the callback of call c is chained to a promise that is still pending
Awaited(h, c) ==
  \E e \in DOMAIN h.execs :
    ~h.execs[e].resolved /\ \E i \in DOMAIN h.execs[e].callbacks : h.execs[e].callbacks[i] = c

\* C27: at most one debounce timer per program name is scheduled at any time,
\* the one debounceTimers holds for the name; a getDebouncedHelp for a name
\* whose timer is scheduled clears that timer and schedules a new one; the
\* callback of a call whose timer was cleared is never invoked, nor that of a
\* call whose timer is still to fire; the callback of a call whose timer has
\* fired is invoked once, when the promise of its getHelp is fulfilled, and
\* never again.
DebounceReplacesTimer ==
  /\ [](\A k \in HelpKeys :
          /\ Cardinality(ScheduledFor(help, k)) <= 1
          /\ ScheduledFor(help, k) =
               (IF help.debounceTimers[k] # NoTimer THEN {help.debounceTimers[k]} ELSE {}))
  /\ [][(helpOp'.op = "getDebouncedHelp" /\ help.debounceTimers[helpOp'.command] # NoTimer) =>
          /\ help'.calls[help.debounceTimers[helpOp'.command]].timer = "cleared"
          /\ help'.debounceTimers[helpOp'.command] = Len(help'.calls)
          /\ ScheduledFor(help', helpOp'.command) = {Len(help'.calls)}]_vars
  /\ [](\A c \in DOMAIN help.calls :
          help.calls[c].invoked =
            (IF help.calls[c].timer = "fired" /\ ~Awaited(help, c) THEN 1 ELSE 0))
  /\ [][\A c \in DOMAIN help.calls : help'.calls[c].invoked >= help.calls[c].invoked]_vars

\* of two calls for one name the first was superseded and its callback has not
\* run; the callback of the second has just run, once
DebounceReplacesTimerWitness ==
  /\ helpOp.op = "close"
  /\ Len(help.calls) = 2
  /\ help.calls[1].command = help.calls[2].command
  /\ help.calls[1].timer = "cleared" /\ help.calls[1].invoked = 0
  /\ help.calls[2].timer = "fired" /\ help.calls[2].invoked = 1
  /\ help.execs[helpOp.exec].callbacks = <<2>>

\* ------------------------------------------------------- routing of output
\* the handler of the step posts the chunk of the data event to the display,
\* once and before anything else
ForwardedToDisplay ==
  /\ out' # <<>>
  /\ out'[1] = Msg("output", lastOp'.id, lastOp'.data[1])
  /\ \A i \in DOMAIN out' : out'[i].type = "output" => i = 1
\* the handler of the step hands the chunk of the data event to the detector
PassedToDetector ==
  /\ detector'[lastOp'.id].lastOutput # detector[lastOp'.id].lastOutput
  /\ detector'[lastOp'.id].tail = Trailing(detector[lastOp'.id].tail \o lastOp'.data)

\* C28: a data event of a session is handled in one piece: its chunk is posted
\* to the display and handed to the detector, in this order and both before
\* the next event is taken, or it is dropped for both; it is dropped exactly
\* when no view is attached or the provider is disposed, and then nothing is
\* posted and no detector state changes.  Display and detector therefore get
\* the same chunks of a session, in the order of the data events.
ChunkToDisplayAndDetector ==
  [][lastOp'.op = "data" =>
       /\ ForwardedToDisplay <=> PassedToDetector
       /\ ForwardedToDisplay <=> (view /\ ~disposed)
       /\ ~ForwardedToDisplay => out' = <<>> /\ detector' = detector
       /\ \A id \in Ids \ {lastOp'.id} : detector'[id] = detector[id]]_vars

\* the second chunk of a session has reached the display and the detector,
\* after a first chunk that was a different symbol
ChunkToDisplayAndDetectorWitness ==
  /\ lastOp.op = "data"
  /\ out = <<Msg("output", lastOp.id, lastOp.data[1])>>
  /\ Len(detector[lastOp.id].tail) = 2
  /\ detector[lastOp.id].tail[2] = lastOp.data[1]
  /\ detector[lastOp.id].tail[1] # lastOp.data[1]
  /\ detector[lastOp.id].lastOutput = 0

\* ------------------------------------------------------ process-handle table
\* the sessions that have a handle in the table
Registered == {id \in Ids : ptys[id] # 0}
\* a process can be spawned for session id once its handle has been dropped
CanRespawn(id) == \E q \in Pids : kill(Cur, id).procs[q].st = "none"

\* C29: every id in the handle table belongs to a session of the session set
\* and its handle is the process spawned for that id, so no handle is
\* registered under two ids; every running process is the registered handle
\* of its session; spawn(id) kills and unregisters the handle id had before
\* it registers a new one; closing a session leaves no handle for it and
\* removes it from the set; killAll leaves the table empty.
HandleTableSound ==
  /\ \A id \in Registered :
       /\ has(Cur, id)
       /\ procs[ptys[id]].tid = id
       /\ procs[ptys[id]].st \in {"running", "exited"}
  /\ \A id1, id2 \in Registered : id1 # id2 => ptys[id1] # ptys[id2]
  /\ \A q \in Pids : procs[q].st = "running" => ptys[procs[q].tid] = q
  /\ \A id \in Registered : \A ok \in BOOLEAN :
       (CanRespawn(id) /\ procs[ptys[id]].st = "running") =>
         /\ spawn(Cur, id, config, NoCwd, ok).procs[ptys[id]].st = "killed"
         /\ spawn(Cur, id, config, NoCwd, ok).ptys[id] # ptys[id]
         /\ \A other \in Ids \ {id} : spawn(Cur, id, config, NoCwd, ok).ptys[other] = ptys[other]
  /\ \A i \in DOMAIN terminals :
       (ClosingLast(terminals[i].id) => CanAllocate) =>
         /\ closeTerminal(Cur, terminals[i].id).ptys[terminals[i].id] = 0
         /\ ~has(closeTerminal(Cur, terminals[i].id), terminals[i].id)
  /\ \A id \in Ids : killAll(Cur).ptys[id] = 0

\* after a restart two sessions hold a running process each, and the process
\* the restart killed is in no entry of the table
HandleTableSoundWitness ==
  /\ lastOp.op = "restart"
  /\ Len(terminals) = 2
  /\ \A i \in DOMAIN terminals :
       ptys[terminals[i].id] # 0 /\ procs[ptys[terminals[i].id]].st = "running"
  /\ \E q \in Pids :
       procs[q].st = "killed" /\ procs[q].tid = lastOp.id /\ ptys[lastOp.id] # q

\* --------------------------------------------------------- child environment
\* C30: the environment of a child process has TERM=xterm-256color,
\* COLORTERM=truecolor and FORCE_COLOR=1 whatever was inherited or
\* configured, has no CI variable whether CI was inherited or configured,
\* and has every other variable with its configured value if the
\* configuration sets it, else with its inherited value if it has one, and
\* not at all otherwise.
ChildEnvironmentForcedAndWithoutCI ==
  childEnv # NotBuilt =>
    /\ childEnv["TERM"] = "xterm-256color"
    /\ childEnv["COLORTERM"] = "truecolor"
    /\ childEnv["FORCE_COLOR"] = "1"
    /\ childEnv["CI"] = Absent
    /\ \A k \in EnvKeys \ {"TERM", "COLORTERM", "FORCE_COLOR", "CI"} :
         childEnv[k] = (IF configEnv[k] # Absent THEN configEnv[k]
                        ELSE IF processEnv[k] \notin {Absent, Undefined} THEN processEnv[k]
                        ELSE Absent)

\* an environment built while CI and TERM were inherited and configured and
\* PATH was inherited and overridden by the configuration
ChildEnvironmentForcedAndWithoutCIWitness ==
  /\ childEnv # NotBuilt
  /\ processEnv["CI"] = "inherited" /\ configEnv["CI"] = "configured"
  /\ processEnv["TERM"] = "inherited" /\ configEnv["TERM"] = "configured"
  /\ processEnv["PATH"] = "inherited" /\ configEnv["PATH"] = "configured"
  /\ childEnv["PATH"] = "configured"
  /\ childEnv["CI"] = Absent

\* ------------------------------------------------------------ spawn modes
\* the step spawned a process for session lastOp'.id
Spawned ==
  /\ lastOp'.op \in {"createTerminal", "restart"} /\ lastOp'.data = <<>>
  /\ lastOp'.id # NoId
\* the configuration the spawn of the step was given
SpawnedWith ==
  IF lastOp'.op = "restart" THEN config
  ELSE spawnConfig(Cur, CHOOSE p \in pending : p.id = lastOp'.id)
\* what the process spawned by the step runs
SpawnedChild == procs'[ptys'[lastOp'.id]].child

\* C31: a spawned process is the target program with its arguments exactly
\* when the mode flag is direct and the program name is non-empty; otherwise
\* it is the shell (the configured one, else the default of the platform)
\* without arguments; and the clear-and-run command line is written to it
\* exactly when the mode is not direct, auto-run is set and the program name
\* is non-empty.
SpawnModeFollowsConfig ==
  [][Spawned =>
       LET cfg == SpawnedWith
           c == SpawnedChild
           direct == cfg.directMode /\ cfg.command # ""
       IN /\ direct => c.file = cfg.command /\ c.args = cfg.args
          /\ ~direct => /\ c.file = (IF cfg.shell # "" THEN cfg.shell ELSE DefaultShell)
                        /\ c.args = <<>>
          /\ (c.input # <<>>) <=> (~cfg.directMode /\ cfg.autoRun /\ cfg.command # "")
          /\ c.input # <<>> => c.input = <<"clear", "&&", cfg.command>> \o cfg.args \o <<"\\r">>
    ]_vars

\* a process spawned in shell mode with the configured shell and the command
\* line injected
SpawnModeFollowsConfigWitness ==
  \E q \in Pids :
    /\ procs[q].st = "running"
    /\ ~config.directMode /\ config.autoRun
    /\ procs[q].child.file = "/bin/zsh" /\ procs[q].child.args = <<>>
    /\ procs[q].child.input = <<"clear", "&&", "claude", "--resume", "\\r">>

\* --------------------------------------------------- restart: spawn frame
\* C40: the process restart() spawns for a session runs the same program with
\* the same arguments and input in the same working directory as the process
\* the session had before.
RestartKeepsSpawnParameters ==
  [][(lastOp'.op = "restart" /\ lastOp'.data = <<>> /\ lastOp'.id # NoId
        /\ ptys[lastOp'.id] # 0) =>
       procs'[ptys'[lastOp'.id]].child = procs[ptys[lastOp'.id]].child
    ]_vars

\* ------------------------------------------------ notification alternation
EmitsOff(id) == \E i \in DOMAIN out' : out'[i] = NotificationOff(id)

\* C32: the notification events of a session alternate, starting with on:
\* on is emitted only when the last event of the session was not on, off only
\* when it was on; and the waiting flag stored for a session says whether its
\* last event was on.
NotificationsAlternate ==
  [][\A id \in Ids :
       /\ EmitsOn(id) => notified[id] # "on"
       /\ EmitsOff(id) => notified[id] = "on"
       /\ has(Cur, id) => (WaitingFlag(terminals, id) <=> notified[id] = "on")
    ]_vars

\* ------------------------------------------------------------ close: frame
\* the program state a close can touch, apart from the webview messages
SessionState ==
  <<terminals, activeTerminalId, terminalCounter, nextId, pending, ptys, procs,
    detector, isRestarting, restartTimers>>

\* C33: the close of a session that is not the active one removes its entry,
\* its process handle and its detector state, kills its process, and leaves
\* the active pointer, the entries (flags included), the handles, the
\* processes and the detector states of the other sessions as they are; no
\* session is created.  The close of an id that is not in the session set
\* changes nothing and posts no message.
CloseOfInactiveTouchesOnlyIt ==
  [][\A id \in Ids :
       (lastOp'.op = "closeTab" /\ lastOp'.id = id) =>
         /\ (has(Cur, id) /\ activeTerminalId # id) =>
              /\ terminals' = RemoveId(terminals, id)
              /\ activeTerminalId' = activeTerminalId
              /\ ptys' = [ptys EXCEPT ![id] = 0]
              /\ detector' = [detector EXCEPT ![id] = NoDetectorState]
              /\ \A q \in Pids :
                   IF ptys[id] = q
                     THEN procs'[q].st \in {"killed", "none"}
                     ELSE procs'[q] = procs[q]
              /\ pending' = pending /\ nextId' = nextId
              /\ out' = IF view THEN <<Msg("removeTab", id, ""), Msg("tabsUpdate", NoId, "")>>
                        ELSE <<>>
         /\ ~has(Cur, id) => UNCHANGED SessionState /\ out' = <<>>
    ]_vars

\* an inactive session has just been closed while the other session, with a
\* live process and output in its detector window, stays
CloseOfInactiveTouchesOnlyItWitness ==
  /\ lastOp.op = "closeTab" /\ lastOp.x # NoId /\ lastOp.id # lastOp.x
  /\ \E i \in DOMAIN out : out[i] = Msg("removeTab", lastOp.id, "")
  /\ activeTerminalId = lastOp.x
  /\ LiveProcess(Cur, activeTerminalId)
  /\ detector[activeTerminalId].timer

\* ------------------------------------------------- exit suppression: scope
\* the handler of the step posts the exit report of session id
ReportsExit(id) == \E i \in DOMAIN out' : out'[i] = Msg("output", id, "exit")
\* every restart whose timer is pending was a restart of a session other than
\* id: the process it killed, which has not exited yet, belonged to another one
WindowsOfOthersOnly(id) ==
  \A i \in DOMAIN restartTimers :
    \E q \in Pids : procs[q].killedBy = restartTimers[i] /\ procs[q].tid # id

\* C34: while the grace window of a restart of one session is open, the exit
\* of the process of another session, which no restart killed, is reported.
ExitOfOtherSessionReported ==
  [][(lastOp'.op = "exit" /\ lastOp'.x = 0 /\ view /\ ~disposed
        /\ restartTimers # <<>> /\ WindowsOfOthersOnly(lastOp'.id)) =>
       ReportsExit(lastOp'.id)
    ]_vars

\* ------------------------------------------------ overlapping grace windows
\* C35: the exit event of the process that a second or later restart() killed
\* posts no exit message as long as the timer of that restart is pending,
\* whether the timer of an earlier restart has fired in between or not.
LaterRestartSuppressesFully ==
  (lastOp.op = "exit" /\ lastOp.x > 1 /\ lastOp.x \in SeqToSet(restartTimers)) =>
    out = <<>>

\* --------------------------------------------------- output after a close
\* the handler of the step posts an output message for session id
EmitsOutput(id) == \E i \in DOMAIN out' : out'[i].type = "output" /\ out'[i].id = id

\* C36: once a session has been closed and removed, no output message is
\* posted for its id: neither the exit report nor the chunks of the process
\* the close killed.
NoOutputAfterClose ==
  [][\A id \in Ids : Closed(id) => ~EmitsOutput(id)]_vars

\* ------------------------------------------------ creation before output
\* Session id exists and the view has just been resolved.  When that is the
\* first view, the session was added while no view was set: its createTab
\* message, which only the handler that adds the session posts, was dropped
\* by postMessage, and no later handler posts it.
CreatedUnannounced(id) ==
  /\ has(Cur, id)
  /\ lastOp.op = "resolveWebviewView"
\* the last handler posted an output message for session id
OutputFor(id) == \E i \in DOMAIN out : out[i].type = "output" /\ out[i].id = id

\* the view is resolved while none is set, and once set it stays set
ViewResolvedOnce ==
  /\ view => view'
  /\ lastOp'.op = "resolveWebviewView" => ~view

\* C37: an output message of a session (process output, the error text of a
\* failed spawn, the exit report) is posted only after the createTab message
\* of that session: no handler posts an output message for a session whose
\* createTab message was never posted.
CreatedBeforeOutput ==
  [][ViewResolvedOnce /\ \A id \in Ids : CreatedUnannounced(id) => ~OutputFor(id)']_vars

\* ------------------------------------------------- probes one at a time
\* the candidates of execution e whose probe process is running
RunningProbes(e) == {n \in DOMAIN helpFlags : help.execs[e].attempts[n].st = "running"}

\* C38: an execution has at most one probe process running at any time, and
\* it has the exhaustion result only when all three candidates are over.
ProbesRunOneAtATime ==
  \A e \in DOMAIN help.execs :
    /\ Cardinality(RunningProbes(e)) <= 1
    /\ (help.execs[e].resolved /\ help.execs[e].result = Exhausted(help.execs[e].command)) =>
         \A n \in DOMAIN helpFlags : Finished(help, e, n)

\* ------------------------------------------------- flags the picker shows
\* every lookup that was started has completed, the one for the command
\* typed last included
LookupsCompleted ==
  /\ \A c \in DOMAIN help.calls :
       /\ help.calls[c].timer # "scheduled"
       /\ help.calls[c].timer = "fired" => help.calls[c].invoked > 0
  /\ \E c \in DOMAIN help.calls :
       help.calls[c].command = help.lastQuery /\ help.calls[c].invoked > 0

\* C39: once all outstanding help lookups have completed, the flags the
\* picker shows are those of the command name typed last.
ShownFlagsAreOfCurrentCommand ==
  LookupsCompleted => help.shown.command = help.lastQuery

====
